---------------------------- MODULE Spec2Model ----------------------------
(***************************************************************************)
(* A model of the esp-string-parser library: the Record/Group/Subrecord    *)
(* container codec, the string extraction and translation protocol, and    *)
(* the string-table codec.                                                 *)
(*                                                                         *)
(* Bytes are naturals 0..255 and a byte buffer is a sequence of bytes.     *)
(* Cursor positions are 0-based as in the source: data[p] is buf[p + 1].   *)
(* A Rust String is modelled by its UTF-8 bytes (which is what a String    *)
(* is), so as_bytes() is the identity and len() is the byte length; the    *)
(* conversions from untrusted bytes (from_utf8_lossy, RawString::decode)   *)
(* are modelled byte by byte.                                              *)
(* Option<T> is a sequence of at most one element.                         *)
(* Unsigned 32-bit values stay below 2^31 in every input the model draws.  *)
(***************************************************************************)
EXTENDS Integers, Sequences, FiniteSets, TLC

VARIABLES
    \* ---- string-table codec (SpecStrings)
    sf,              \* the StringFile: [file_type, entries]
    sf_result,       \* the last StringFile call: its name, what it was given
                     \* and what it returned (and, for from_bytes, printed)
    debug_assertions, \* the build profile (cfg(debug_assertions))
    \* ---- one record through the codec (SpecRecord)
    rec_data,        \* the bytes under the cursor handed to Record::parse
    rec_parsed,      \* None before the parse, then Some(its Result)
    rec_output,      \* None before write_record, then Some(the bytes it emitted)
    \* ---- a loaded plugin (SpecPlugin)
    pl_file,         \* the file the plugin was loaded from: [name, data]
    pl_plugin,       \* the Plugin: [name, header, groups, masters, string_files]
    pl_result,       \* the last Plugin call: its name, what it returned,
                     \* printed and wrote
    \* ---- the choice of a string table (SpecRoute)
    route_args,      \* the arguments of determine_string_file_type:
                     \* [record_type, subrecord_type]
    route_type,      \* None before the call, then Some(the table kind returned)
    \* ---- the editor on top of a plugin (SpecDelta, SpecEditor)
    ed_delta,        \* the TranslationDelta: [changes, undo_stack, redo_stack]
    ed_result,       \* the last TranslationDelta or PluginEditor call: its
                     \* name, what it was given and what it returned
    \* ---- the parallel parse of the top-level groups (SpecParse)
    pg_data,         \* the bytes of the file
    pg_ranges,       \* None before the boundary scan, then Some(the (start,
                     \* size) pairs it returned)
    pg_tasks,        \* one parse task per range: "pending", "running",
                     \* "skipped", or the result the task returned
    pg_order,        \* the ranges whose task has returned, in the order of
                     \* their completion
    pg_error,        \* the error the collector saved first, if any: Some(range)
    pg_result,       \* None until parse_groups returns, then Some(its result)
    \* ---- a plugin inside a LocalizedPluginContext (SpecContext)
    cx_string_files, \* the string_files field of the context: None when
                     \* there is no context, else Some(the StringFileSet)
    cx_result        \* the last call on the context: its name, what it was
                     \* given and what it returned or wrote

sfvars == <<sf, sf_result, debug_assertions>>

recvars == <<rec_data, rec_parsed, rec_output>>

plvars == <<pl_file, pl_plugin, pl_result>>

rtvars == <<route_args, route_type>>

edvars == <<ed_delta, ed_result>>

pgvars == <<pg_data, pg_ranges, pg_tasks, pg_order, pg_error, pg_result>>

cxvars == <<cx_string_files, cx_result>>

vars == <<sfvars, recvars, plvars, rtvars, edvars, pgvars, cxvars>>

\* the variables of the string-table codec while another subsystem runs
SfIdle ==
    /\ sf = <<>>
    /\ sf_result = <<>>
    /\ debug_assertions = FALSE

\* the variables of the record codec while another subsystem runs
RecIdle ==
    /\ rec_data = <<>>
    /\ rec_parsed = <<>>
    /\ rec_output = <<>>

\* the variables of the plugin while another subsystem runs
PlIdle ==
    /\ pl_file = <<>>
    /\ pl_plugin = <<>>
    /\ pl_result = <<>>

\* the variables of the table choice while another subsystem runs
RtIdle ==
    /\ route_args = <<>>
    /\ route_type = <<>>

\* the variables of the editor while another subsystem runs
EdIdle ==
    /\ ed_delta = <<>>
    /\ ed_result = <<>>

\* the variables of the parallel parse while another subsystem runs
PgIdle ==
    /\ pg_data = <<>>
    /\ pg_ranges = <<>>
    /\ pg_tasks = <<>>
    /\ pg_order = <<>>
    /\ pg_error = <<>>
    /\ pg_result = <<>>

\* no LocalizedPluginContext has been made
CxIdle ==
    /\ cx_string_files = <<>>
    /\ cx_result = [op |-> "none"]

(***************************************************************************)
(* Bounds of the model                                                     *)
(***************************************************************************)
\* string ids drawn by the string-table operations: 1..MaxStringId
MaxStringId == 2
\* longest text, in characters, handed to add_string / update_string
MaxTextChars == 1
\* most bytes that follow a record in the buffer handed to Record::parse
MaxTrailing == 2
\* most units in the translation list handed to apply_translations_unified
MaxTranslations == 2
\* most bytes that follow the last subrecord in a record payload
MaxPadding == 7

(***************************************************************************)
(* Primitive codec                                                         *)
(***************************************************************************)
None == <<>>
Some(x) == <<x>>

RECURSIVE Flatten(_)
Flatten(ss) ==
    IF ss = <<>> THEN <<>> ELSE Head(ss) \o Flatten(Tail(ss))

\* data[from..to) with 0-based positions, as a Rust slice
Slice(data, from, to) == SubSeq(data, from + 1, to)

\* iter().position(|&b| b == 0): index of the first NUL, None when absent
RECURSIVE position_nul(_)
position_nul(bytes) ==
    IF bytes = <<>> THEN None
    ELSE IF Head(bytes) = 0 THEN Some(0)
    ELSE LET r == position_nul(Tail(bytes))
         IN  IF r = None THEN None ELSE Some(r[1] + 1)

\* u32::to_le_bytes / write_u32
write_u32(n) ==
    << n % 256, (n \div 256) % 256, (n \div 65536) % 256, (n \div 16777216) % 256 >>

\* u16::to_le_bytes (the value already truncated to 16 bits by `as u16`)
write_u16(n) == << n % 256, (n \div 256) % 256 >>

\* read_u32 on a cursor at 0-based position pos: Err when fewer than 4 bytes remain
read_u32(data, pos) ==
    IF pos + 4 > Len(data) THEN [ok |-> FALSE, val |-> 0]
    ELSE [ok |-> TRUE,
          val |-> data[pos + 1] + 256 * data[pos + 2] + 65536 * data[pos + 3]
                    + 16777216 * data[pos + 4]]

read_u16(data, pos) ==
    IF pos + 2 > Len(data) THEN [ok |-> FALSE, val |-> 0]
    ELSE [ok |-> TRUE, val |-> data[pos + 1] + 256 * data[pos + 2]]

\* U+FFFD, what a lossy decode puts in place of an invalid sequence
ReplacementChar == <<239, 191, 189>>

IsCont(b) == b >= 128 /\ b <= 191

\* String::from_utf8_lossy: valid sequences are kept, every invalid byte
\* becomes U+FFFD (1-, 2- and 3-byte forms; the inputs hold no 4-byte lead)
RECURSIVE from_utf8_lossy(_)
from_utf8_lossy(bytes) ==
    IF bytes = <<>> THEN <<>>
    ELSE LET b == Head(bytes) IN
         IF b < 128 THEN <<b>> \o from_utf8_lossy(Tail(bytes))
         ELSE IF b >= 194 /\ b <= 223 /\ Len(bytes) >= 2 /\ IsCont(bytes[2])
              THEN <<b, bytes[2]>> \o from_utf8_lossy(SubSeq(bytes, 3, Len(bytes)))
         ELSE IF b >= 224 /\ b <= 239 /\ Len(bytes) >= 3
                 /\ IsCont(bytes[2]) /\ IsCont(bytes[3])
              THEN <<b, bytes[2], bytes[3]>>
                     \o from_utf8_lossy(SubSeq(bytes, 4, Len(bytes)))
         ELSE ReplacementChar \o from_utf8_lossy(Tail(bytes))

(***************************************************************************)
(* Container codec: Subrecord, Record                                      *)
(***************************************************************************)
\* RecordFlags bits
COMPRESSED == 262144
LOCALIZED == 128

\* flags & bit != 0, for a single-bit mask
HasFlag(flags, bit) == (flags \div bit) % 2 = 1

\* four-character type codes, as bytes
XXXX == <<88, 88, 88, 88>>
EDID == <<69, 68, 73, 68>>
FULL == <<70, 85, 76, 76>>
DESC == <<68, 69, 83, 67>>
SHRT == <<83, 72, 82, 84>>
MAST == <<77, 65, 83, 84>>
DATA == <<68, 65, 84, 65>>
GRUP == <<71, 82, 85, 80>>
TES4 == <<84, 69, 83, 52>>
TES3 == <<84, 69, 83, 51>>
WEAP == <<87, 69, 65, 80>>
ARMO == <<65, 82, 77, 79>>
NPC_ == <<78, 80, 67, 95>>
MISC == <<77, 73, 83, 67>>
INFO == <<73, 78, 70, 79>>
CNAM == <<67, 78, 65, 77>>

\* the sum of bytes[lo..hi], by halves
RECURSIVE SumRange(_, _, _)
SumRange(bytes, lo, hi) ==
    IF lo > hi THEN 0
    ELSE IF lo = hi THEN bytes[lo]
    ELSE LET mid == (lo + hi) \div 2 IN
         SumRange(bytes, lo, mid) + SumRange(bytes, mid + 1, hi)

SumBytes(bytes) == SumRange(bytes, 1, Len(bytes))

\* The zlib stream format belongs to the flate2 crate. The model keeps what the
\* program depends on: a stream is a two-byte header (120, then a byte naming
\* the compression level), the data, and a one-byte checksum of the data, so
\* that several streams inflate to the same data and damaged streams are
\* rejected.
ZlibChecksum(data) == (SumBytes(data) + Len(data)) % 256

\* ZlibDecoder::read_to_end
Inflate(stream) ==
    LET n == Len(stream) IN
    IF n >= 3 /\ stream[1] = 120 /\ stream[2] \in {1, 156, 218}
       /\ stream[n] = ZlibChecksum(SubSeq(stream, 3, n - 1))
    THEN [ok |-> TRUE, data |-> SubSeq(stream, 3, n - 1)]
    ELSE [ok |-> FALSE, data |-> <<>>]

\* ZlibEncoder at Compression::default()
Deflate(data) == <<120, 156>> \o data \o <<ZlibChecksum(data)>>

\* Subrecord::parse with the cursor at pos: [ok, subrecord, pos]
Subrecord_parse(data, pos) ==
    IF pos + 6 > Len(data) THEN [ok |-> FALSE]
    ELSE
      LET type_bytes == Slice(data, pos, pos + 4)
          record_type == from_utf8_lossy(type_bytes)
          size == read_u16(data, pos + 4).val
      IN  IF record_type = XXXX
          THEN IF size # 4 THEN [ok |-> FALSE]
               ELSE LET field_size == read_u32(data, pos + 6) IN
                    IF ~field_size.ok \/ pos + 16 > Len(data)
                       \/ pos + 16 + field_size.val > Len(data)
                    THEN [ok |-> FALSE]
                    ELSE LET next_type_bytes == Slice(data, pos + 10, pos + 14) IN
                         [ok |-> TRUE,
                          subrecord |->
                            [record_type_bytes |-> next_type_bytes,
                             record_type |-> from_utf8_lossy(next_type_bytes),
                             size |-> 0,
                             data |-> Slice(data, pos + 16, pos + 16 + field_size.val)],
                          pos |-> pos + 16 + field_size.val]
          ELSE IF pos + 6 + size > Len(data) THEN [ok |-> FALSE]
               ELSE [ok |-> TRUE,
                     subrecord |->
                       [record_type_bytes |-> type_bytes,
                        record_type |-> record_type,
                        size |-> size,
                        data |-> Slice(data, pos + 6, pos + 6 + size)],
                     pos |-> pos + 6 + size]

\* the loop of Record::parse_subrecords with the cursor at pos
RECURSIVE parse_subrecords_from(_, _, _)
parse_subrecords_from(data, pos, subrecords) ==
    IF pos >= Len(data) THEN [ok |-> TRUE, subrecords |-> subrecords]
    ELSE
      LET remaining == Len(data) - pos IN
      IF remaining < 6
      THEN IF \A i \in (pos + 1)..Len(data) : data[i] = 0
           THEN [ok |-> TRUE, subrecords |-> subrecords]
           ELSE [ok |-> FALSE]
      ELSE LET r == Subrecord_parse(data, pos) IN
           IF ~r.ok THEN [ok |-> FALSE]
           ELSE parse_subrecords_from(data, r.pos, Append(subrecords, r.subrecord))

\* Record::parse_subrecords
parse_subrecords(data) == parse_subrecords_from(data, 0, <<>>)

\* Record::decompress_data
decompress_data(data) ==
    IF Len(data) < 4 THEN [ok |-> FALSE]
    ELSE
      LET decompressed_size == read_u32(data, 0).val
          compressed_data == Slice(data, 4, Len(data))
      IN  IF decompressed_size = 0 \/ decompressed_size > 50000000 THEN [ok |-> FALSE]
          ELSE IF compressed_data = <<>> THEN [ok |-> FALSE]
          ELSE LET z == Inflate(compressed_data) IN
               IF ~z.ok THEN [ok |-> FALSE]
               ELSE IF Len(z.data) # decompressed_size THEN [ok |-> FALSE]
               ELSE [ok |-> TRUE, data |-> z.data]

\* a mutant of handle_compression: after a failed decompression the
\* subrecords are parsed from the payload as it is
handle_compression_parsing_anyway(data, flags) ==
    IF HasFlag(flags, COMPRESSED)
    THEN LET d == decompress_data(data) IN
         IF d.ok
         THEN [final_data |-> d.data, parse_subrecords |-> TRUE,
               original_compressed |-> Some(data)]
         ELSE [final_data |-> data, parse_subrecords |-> TRUE,
               original_compressed |-> Some(data)]
    ELSE [final_data |-> data, parse_subrecords |-> TRUE,
          original_compressed |-> None]

\* Record::handle_compression: (final_data, parse_subrecords, original_compressed)
handle_compression(data, flags) ==
    IF HasFlag(flags, COMPRESSED)
    THEN LET d == decompress_data(data) IN
         IF d.ok
         THEN [final_data |-> d.data, parse_subrecords |-> TRUE,
               original_compressed |-> Some(data)]
         ELSE [final_data |-> data, parse_subrecords |-> FALSE,
               original_compressed |-> Some(data)]
    ELSE [final_data |-> data, parse_subrecords |-> TRUE,
          original_compressed |-> None]

\* Record::parse with the cursor at pos: [ok, record, pos]
Record_parse(data, pos) ==
    IF pos + 24 > Len(data) THEN [ok |-> FALSE]
    ELSE
      LET type_bytes == Slice(data, pos, pos + 4)
          data_size == read_u32(data, pos + 4).val
          flags_raw_bytes == read_u32(data, pos + 8).val
      IN  IF data_size > 100000000 THEN [ok |-> FALSE]
          ELSE IF pos + 24 + data_size > Len(data) THEN [ok |-> FALSE]
          ELSE
            LET h == handle_compression(Slice(data, pos + 24, pos + 24 + data_size),
                                        flags_raw_bytes)
                subrecords == IF h.parse_subrecords
                              THEN parse_subrecords(h.final_data)
                              ELSE [ok |-> TRUE, subrecords |-> <<>>]
            IN  IF ~subrecords.ok THEN [ok |-> FALSE]
                ELSE [ok |-> TRUE,
                      record |->
                        [record_type_bytes |-> type_bytes,
                         record_type |-> from_utf8_lossy(type_bytes),
                         data_size |-> data_size,
                         flags |-> flags_raw_bytes,
                         form_id |-> read_u32(data, pos + 12).val,
                         timestamp |-> read_u16(data, pos + 16).val,
                         version_control_info |-> read_u16(data, pos + 18).val,
                         internal_version |-> read_u16(data, pos + 20).val,
                         unknown |-> read_u16(data, pos + 22).val,
                         original_compressed_data |-> h.original_compressed,
                         raw_data |-> h.final_data,
                         subrecords |-> subrecords.subrecords,
                         is_modified |-> FALSE],
                      pos |-> pos + 24 + data_size]

\* Record::mark_modified
mark_modified(record) == [record EXCEPT !.is_modified = TRUE]

\* Record::recompress_data: the subrecords with their size fields, compressed
recompress_data(record) ==
    LET subrecord_data ==
          Flatten([k \in 1..Len(record.subrecords) |->
                     LET s == record.subrecords[k] IN
                     s.record_type_bytes \o write_u16(s.size) \o s.data])
    IN  write_u32(Len(subrecord_data)) \o Deflate(subrecord_data)

\* a mutant of write_record: the subrecords are serialized again whether or
\* not the record was modified
write_record_always_serialize(record, output) ==
    LET subrecord_data ==
          Flatten([k \in 1..Len(record.subrecords) |->
                     LET s == record.subrecords[k] IN
                     s.record_type_bytes \o write_u16(Len(s.data) % 65536) \o s.data])
        data_to_write == IF HasFlag(record.flags, COMPRESSED)
                         THEN recompress_data(record)
                         ELSE subrecord_data
    IN  output \o record.record_type_bytes \o write_u32(Len(data_to_write))
          \o write_u32(record.flags) \o write_u32(record.form_id)
          \o write_u16(record.timestamp) \o write_u16(record.version_control_info)
          \o write_u16(record.internal_version) \o write_u16(record.unknown)
          \o data_to_write

\* Plugin::write_record: the output with the record appended
write_record(record, output) ==
    LET is_originally_compressed == HasFlag(record.flags, COMPRESSED)
        subrecord_data ==
          Flatten([k \in 1..Len(record.subrecords) |->
                     LET s == record.subrecords[k] IN
                     s.record_type_bytes \o write_u16(Len(s.data) % 65536) \o s.data])
        data_to_write ==
          IF record.is_modified
          THEN IF is_originally_compressed
               THEN recompress_data(record)
               ELSE subrecord_data
          ELSE IF record.original_compressed_data # None
               THEN record.original_compressed_data[1]
               ELSE record.raw_data
        actual_size == Len(data_to_write)
    IN  output \o record.record_type_bytes \o write_u32(actual_size)
          \o write_u32(record.flags) \o write_u32(record.form_id)
          \o write_u16(record.timestamp) \o write_u16(record.version_control_info)
          \o write_u16(record.internal_version) \o write_u16(record.unknown)
          \o data_to_write

(***************************************************************************)
(* Text: decoding, validation, and the formatting of keys                  *)
(***************************************************************************)
HasPrefix(bytes, prefix) ==
    Len(bytes) >= Len(prefix) /\ SubSeq(bytes, 1, Len(prefix)) = prefix

\* the UTF-8 byte order mark, U+FEFF
Utf8Bom == <<239, 187, 191>>

\* Encoding::decode_without_bom_handling for windows-1252, which maps every
\* byte to a character and so never reports an error: an ASCII byte to
\* itself, a byte from 0xA0 on to the character of the same number (the
\* model draws no byte in 0x80..0x9F, where the code page has its own table)
RECURSIVE windows_1252(_)
windows_1252(bytes) ==
    IF bytes = <<>> THEN <<>>
    ELSE LET b == Head(bytes) IN
         (IF b < 128 THEN <<b>> ELSE <<192 + (b \div 64), 128 + (b % 64)>>)
            \o windows_1252(Tail(bytes))

\* RawString::decode. Encoding::decode (encoding_rs) first sniffs a byte order
\* mark: when the data starts with one, the mark is removed and the rest is
\* decoded in the encoding the mark names, whatever encoding was asked for.
\* Without a mark, UTF-8 is tried first, and windows-1252 accepts whatever
\* UTF-8 rejects. With a UTF-8 mark before bytes that are not UTF-8 every
\* attempt reports errors and the lossy fallback decodes the whole data.
\* (The model draws no data that starts with a UTF-16 mark.)
decode(data) ==
    IF HasPrefix(data, Utf8Bom)
    THEN LET rest == SubSeq(data, 4, Len(data)) IN
         IF from_utf8_lossy(rest) = rest THEN rest ELSE from_utf8_lossy(data)
    ELSE IF from_utf8_lossy(data) = data THEN data
    ELSE windows_1252(data)

\* RawString::parse_zstring (the content of the RawString)
parse_zstring(data) ==
    LET null_pos == position_nul(data) IN
    decode(IF null_pos = None THEN data ELSE SubSeq(data, 1, null_pos[1]))

\* str::chars: the characters of a String (1-, 2- and 3-byte forms)
RECURSIVE chars(_)
chars(text) ==
    IF text = <<>> THEN <<>>
    ELSE LET b == Head(text) IN
         IF b < 128 THEN <<b>> \o chars(Tail(text))
         ELSE IF b < 224
         THEN <<(b - 192) * 64 + (text[2] - 128)>>
                \o chars(SubSeq(text, 3, Len(text)))
         ELSE <<(b - 224) * 4096 + (text[2] - 128) * 64 + (text[3] - 128)>>
                \o chars(SubSeq(text, 4, Len(text)))

\* char::is_whitespace (the White_Space characters below U+10000)
is_whitespace(c) ==
    \/ c \in 9..13
    \/ c \in {32, 133, 160, 5760, 8232, 8233, 8239, 8287, 12288}
    \/ c \in 8192..8202

\* char::is_control
is_control(c) == c <= 31 \/ c \in 127..159

is_ascii_uppercase(c) == c \in 65..90

is_ascii_alphanumeric(c) == c \in 48..57 \/ c \in 65..90 \/ c \in 97..122

\* str::trim, on characters
RECURSIVE trim_start(_)
trim_start(cs) ==
    IF cs # <<>> /\ is_whitespace(Head(cs)) THEN trim_start(Tail(cs)) ELSE cs

RECURSIVE trim_end(_)
trim_end(cs) ==
    IF cs # <<>> /\ is_whitespace(cs[Len(cs)])
    THEN trim_end(SubSeq(cs, 1, Len(cs) - 1)) ELSE cs

trim(cs) == trim_end(trim_start(cs))

\* str::contains
contains(cs, pattern) ==
    \E i \in 0..(Len(cs) - Len(pattern)) :
        SubSeq(cs, i + 1, i + Len(pattern)) = pattern

\* utils::is_camel_case
is_camel_case(cs) ==
    IF Len(cs) < 3 \/ ~(\A i \in 1..Len(cs) : is_ascii_alphanumeric(cs[i]))
    THEN FALSE
    ELSE LET has_uppercase == \E i \in 3..Len(cs) : is_ascii_uppercase(cs[i])
             not_all_uppercase == ~(\A i \in 1..Len(cs) : is_ascii_uppercase(cs[i]))
         IN  has_uppercase /\ not_all_uppercase

\* utils::is_snake_case
is_snake_case(cs) == ~contains(cs, <<32>>) /\ contains(cs, <<95>>)

\* utils::is_valid_string: blacklist "<p>", whitelist "Orcax" and "<Alias"
is_valid_string(text) ==
    LET t == trim(chars(text)) IN
    IF t = <<>> THEN FALSE
    ELSE IF t = <<60, 112, 62>> THEN FALSE
    ELSE IF contains(t, <<79, 114, 99, 97, 120>>)
            \/ contains(t, <<60, 65, 108, 105, 97, 115>>) THEN TRUE
    ELSE IF is_camel_case(t) \/ is_snake_case(t) THEN FALSE
    ELSE \A i \in 1..Len(t) : ~is_control(t[i]) \/ is_whitespace(t[i])

HexDigit(d) == IF d < 10 THEN 48 + d ELSE 55 + d

\* format!("{:08X}", n)
Hex8(n) == [i \in 1..8 |-> HexDigit((n \div (16 ^ (8 - i))) % 16)]

\* format!("{}", n) for n >= 0
RECURSIVE Decimal(_)
Decimal(n) ==
    IF n < 10 THEN <<48 + n>> ELSE Decimal(n \div 10) \o <<48 + (n % 10)>>

\* trim_end_matches('\0')
RECURSIVE trim_end_nul(_)
trim_end_nul(text) ==
    IF text # <<>> /\ text[Len(text)] = 0
    THEN trim_end_nul(SubSeq(text, 1, Len(text) - 1)) ELSE text

\* Record::get_editor_id
get_editor_id(record) ==
    LET edids == SelectSeq(record.subrecords, LAMBDA sr : sr.record_type = EDID)
    IN  IF edids = <<>> THEN None
        ELSE Some(trim_end_nul(from_utf8_lossy(edids[1].data)))

\* format_form_id_helper (and Plugin::format_form_id, whose plugin name is
\* the file name of the plugin's path)
format_form_id_helper(form_id, masters, plugin_name) ==
    LET master_index == form_id \div 16777216
        master_file == IF master_index < Len(masters)
                       THEN masters[master_index + 1]
                       ELSE plugin_name
    IN  Hex8(form_id) \o <<124>> \o master_file

(***************************************************************************)
(* Container codec: Group, and the plugin file                             *)
(***************************************************************************)
\* read_i32 / i32::to_le_bytes; every group type the model draws is
\* non-negative, where the signed and the unsigned encodings agree
read_i32(data, pos) == read_u32(data, pos)

write_i32(n) == write_u32(n)

\* GroupType::from(i32)
GroupType_from(value) ==
    IF value = 0 THEN [kind |-> "Normal"]
    ELSE IF value = 1 THEN [kind |-> "World"]
    ELSE IF value = 6 THEN [kind |-> "Cell"]
    ELSE [kind |-> "Unknown", value |-> value]

\* GroupType::to_i32
to_i32(group_type) ==
    IF group_type.kind = "Normal" THEN 0
    ELSE IF group_type.kind = "World" THEN 1
    ELSE IF group_type.kind = "Cell" THEN 6
    ELSE group_type.value

RECURSIVE Group_parse(_, _)
RECURSIVE parse_children(_, _, _, _)

\* GroupChild::Group of a parsed group g, GroupChild::Record of a parsed
\* record r: [ok, child, pos]
GroupChild_Group(g) ==
    IF ~g.ok THEN [ok |-> FALSE]
    ELSE [ok |-> TRUE, child |-> [kind |-> "Group", group |-> g.group], pos |-> g.pos]

GroupChild_Record(r) ==
    IF ~r.ok THEN [ok |-> FALSE]
    ELSE [ok |-> TRUE, child |-> [kind |-> "Record", record |-> r.record], pos |-> r.pos]

\* one turn of the child loop: the child at pos, a group when "GRUP" is
\* peeked, else a record
parse_child(data, pos) ==
    IF Slice(data, pos, pos + 4) = GRUP
    THEN GroupChild_Group(Group_parse(data, pos))
    ELSE GroupChild_Record(Record_parse(data, pos))

\* the child loop after the child c: its error ends the parse, else it is
\* pushed and the loop goes on behind it
parse_children_after(data, data_end, children, c) ==
    IF ~c.ok THEN [ok |-> FALSE]
    ELSE parse_children(data, c.pos, data_end, Append(children, c.child))

\* the child loop of Group::parse with the cursor at pos
parse_children(data, pos, data_end, children) ==
    IF pos >= data_end THEN [ok |-> TRUE, children |-> children, pos |-> pos]
    ELSE IF pos + 4 > Len(data) THEN [ok |-> FALSE]
    ELSE parse_children_after(data, data_end, children, parse_child(data, pos))

\* Group::parse once its children c have been parsed: [ok, group, pos]
Group_with_children(data, pos, size, c) ==
    IF ~c.ok THEN [ok |-> FALSE]
    ELSE [ok |-> TRUE,
          group |->
            [size |-> size,
             label |-> Slice(data, pos + 8, pos + 12),
             group_type |-> GroupType_from(read_i32(data, pos + 12).val),
             timestamp |-> read_u16(data, pos + 16).val,
             version_control_info |-> read_u16(data, pos + 18).val,
             unknown |-> read_u32(data, pos + 20).val,
             children |-> c.children],
          pos |-> c.pos]

\* Group::parse with the cursor at pos: [ok, group, pos]
Group_parse(data, pos) ==
    IF pos + 24 > Len(data) THEN [ok |-> FALSE]
    ELSE IF Slice(data, pos, pos + 4) # GRUP THEN [ok |-> FALSE]
    ELSE
      LET size == read_u32(data, pos + 4).val IN
      IF size > 200000000 THEN [ok |-> FALSE]
      ELSE IF size < 24 THEN [ok |-> FALSE]
      ELSE
        LET data_size == size - 24
            data_start == pos + 24
            data_end == data_start + data_size
        IN  IF data_start + data_size > Len(data) THEN [ok |-> FALSE]
            ELSE Group_with_children(data, pos, size,
                     parse_children(data, data_start, data_end, <<>>))

\* Plugin::scan_group_boundaries with the cursor at pos: (start, size) pairs
RECURSIVE scan_group_boundaries(_, _, _)
scan_group_boundaries(data, pos, boundaries) ==
    IF pos >= Len(data) THEN [ok |-> TRUE, boundaries |-> boundaries]
    ELSE IF pos + 8 > Len(data) THEN [ok |-> TRUE, boundaries |-> boundaries]
    ELSE IF Slice(data, pos, pos + 4) # GRUP THEN [ok |-> FALSE]
    ELSE LET size == read_u32(data, pos + 4).val IN
         IF size < 24 \/ size > 200000000 THEN [ok |-> FALSE]
         ELSE scan_group_boundaries(data, pos + size,
                                    Append(boundaries, <<pos, size>>))

\* the second pass of parse_groups: each range parsed on its own slice
RECURSIVE parse_group_ranges(_, _, _, _)

\* the second pass after the group g of range k
parse_group_ranges_after(data, group_ranges, k, groups, g) ==
    IF ~g.ok THEN [ok |-> FALSE]
    ELSE parse_group_ranges(data, group_ranges, k + 1, Append(groups, g.group))

parse_group_ranges(data, group_ranges, k, groups) ==
    IF k > Len(group_ranges) THEN [ok |-> TRUE, groups |-> groups]
    ELSE LET start == group_ranges[k][1]
             end == start + group_ranges[k][2]
         IN  IF end > Len(data) THEN [ok |-> FALSE]
             ELSE parse_group_ranges_after(data, group_ranges, k, groups,
                      Group_parse(Slice(data, start, end), 0))

\* Plugin::parse_groups with the cursor at pos
parse_groups(data, pos) ==
    LET group_ranges == scan_group_boundaries(data, pos, <<>>) IN
    IF ~group_ranges.ok THEN [ok |-> FALSE]
    ELSE parse_group_ranges(data, group_ranges.boundaries, 1, <<>>)

\* Plugin::extract_masters
extract_masters(header) ==
    LET masts == SelectSeq(header.subrecords, LAMBDA sr : sr.record_type = MAST)
    IN  [k \in 1..Len(masts) |-> parse_zstring(masts[k].data)]

\* Plugin::load after the groups have been parsed
load_groups(name, header, groups) ==
    IF ~groups.ok THEN [ok |-> FALSE]
    ELSE [ok |-> TRUE,
          plugin |-> [name |-> name,
                      header |-> header.record,
                      groups |-> groups.groups,
                      masters |-> extract_masters(header.record),
                      string_files |-> None]]

\* Plugin::load after the header record has been parsed
load_header(name, data, header) ==
    IF ~header.ok THEN [ok |-> FALSE]
    ELSE IF header.record.record_type \notin {TES4, TES3} THEN [ok |-> FALSE]
    ELSE load_groups(name, header, parse_groups(data, header.pos))

\* Plugin::load on the bytes of the file `name`: [ok, plugin]
load(name, data) == load_header(name, data, Record_parse(data, 0))

\* Plugin::is_localized
is_localized(plugin) == HasFlag(plugin.header.flags, LOCALIZED)

\* output[at..at + Len(bytes)] = bytes (copy_from_slice)
CopyFromSlice(output, at, bytes) ==
    [p \in 1..Len(output) |->
        IF p > at /\ p <= at + Len(bytes) THEN bytes[p - at] ELSE output[p]]

RECURSIVE write_group(_, _)
RECURSIVE write_children(_, _, _)

\* the child loop of write_group from child k on
write_children(children, k, output) ==
    IF k > Len(children) THEN output
    ELSE write_children(children, k + 1,
           IF children[k].kind = "Group"
           THEN write_group(children[k].group, output)
           ELSE write_record(children[k].record, output))

\* a mutant of write_group: the size counts from the size field on, without
\* the four bytes of "GRUP"
write_group_from_size_field(group, output) ==
    LET size_pos == Len(output) + 4
        header == GRUP \o <<0, 0, 0, 0>> \o group.label
                    \o write_i32(to_i32(group.group_type))
                    \o write_u16(group.timestamp)
                    \o write_u16(group.version_control_info)
                    \o write_u32(group.unknown)
        written == write_children(group.children, 1, output \o header)
        actual_size == Len(written) - size_pos
    IN  CopyFromSlice(written, size_pos, write_u32(actual_size))

\* Plugin::write_group: the output with the group appended, its size field
\* back-patched
write_group(group, output) ==
    LET size_pos == Len(output) + 4
        header == GRUP \o <<0, 0, 0, 0>> \o group.label
                    \o write_i32(to_i32(group.group_type))
                    \o write_u16(group.timestamp)
                    \o write_u16(group.version_control_info)
                    \o write_u32(group.unknown)
        written == write_children(group.children, 1, output \o header)
        actual_size == Len(written) - size_pos + 4
    IN  CopyFromSlice(written, size_pos, write_u32(actual_size))

RECURSIVE write_groups(_, _, _)
write_groups(groups, k, output) ==
    IF k > Len(groups) THEN output
    ELSE write_groups(groups, k + 1, write_group(groups[k], output))

\* Plugin::write_to_file: the bytes of the file it writes
write_to_file(plugin) ==
    write_groups(plugin.groups, 1, write_record(plugin.header, <<>>))

(***************************************************************************)
(* String-table codec: StringFileType, StringEntry, StringFile             *)
(***************************************************************************)
StringFileType == {"DLSTRINGS", "ILSTRINGS", "STRINGS"}

has_length_prefix(file_type) == file_type \in {"DLSTRINGS", "ILSTRINGS"}

\* StringEntry::new. Of StringEntry's fields the model keeps id, length,
\* content and raw_data; directory_address, relative_offset and
\* absolute_offset are written by the parser and read by no operation.
StringEntry_new(id, content) ==
    [id |-> id, length |-> Some(Len(content)),
     content |-> content, raw_data |-> content]

\* a mutant of get_total_size: the size taken from the cached raw bytes
get_total_size_stale(entry, file_type) ==
    LET content_size == Len(entry.raw_data) IN
    IF has_length_prefix(file_type) THEN 4 + content_size + 1
    ELSE content_size + 1

\* a mutant of get_total_size: the NUL terminator is not counted
get_total_size_no_nul(entry, file_type) ==
    LET content_size == Len(entry.content) IN
    IF has_length_prefix(file_type) THEN 4 + content_size
    ELSE content_size

\* StringEntry::get_total_size
get_total_size(entry, file_type) ==
    LET content_size == Len(entry.content)
        null_terminator == 1
    IN  IF has_length_prefix(file_type)
        THEN 4 + content_size + null_terminator
        ELSE content_size + null_terminator

\* a HashMap insert: the entry under `id` is added or replaced
MapInsert(m, k, v) ==
    [x \in (DOMAIN m) \cup {k} |-> IF x = k THEN v ELSE m[x]]

MapRemove(m, k) == [x \in (DOMAIN m) \ {k} |-> m[x]]

EmptyMap == [x \in {} |-> 0]

\* StringFile::read_string_data with the cursor at start_pos
read_string_data(start_pos, file_type, data) ==
    IF has_length_prefix(file_type)
    THEN LET len == read_u32(data, start_pos)
             content_start == start_pos + 4
         IN  IF ~len.ok THEN [ok |-> FALSE]
             ELSE IF content_start + len.val > Len(data) THEN [ok |-> FALSE]
             ELSE LET string_bytes == Slice(data, content_start, content_start + len.val)
                      null_pos == position_nul(string_bytes)
                      actual == IF null_pos # None
                                THEN SubSeq(string_bytes, 1, null_pos[1])
                                ELSE string_bytes
                  IN  [ok |-> TRUE,
                       content |-> from_utf8_lossy(actual),
                       raw_data |-> Slice(data, start_pos, start_pos + 4 + len.val),
                       length |-> Some(len.val)]
    ELSE LET content_start == start_pos
             remaining_data == Slice(data, content_start, Len(data))
             null_pos == position_nul(remaining_data)
         IN  IF null_pos = None THEN [ok |-> FALSE]
             ELSE [ok |-> TRUE,
                   content |-> from_utf8_lossy(SubSeq(remaining_data, 1, null_pos[1])),
                   raw_data |-> Slice(data, content_start, content_start + null_pos[1] + 1),
                   length |-> None]

\* the directory loop of parse_bytes from entry i on; acc = [ok, entries, skipped]
RECURSIVE parse_directory(_, _, _, _, _)
parse_directory(data, file_type, string_count, i, acc) ==
    IF i >= string_count \/ ~acc.ok THEN acc
    ELSE
      LET string_data_start == 8 + string_count * 8
          directory_address == 8 + i * 8
          string_id == read_u32(data, directory_address)
          relative_offset == read_u32(data, directory_address + 4)
          absolute_offset == string_data_start + relative_offset.val
      IN  IF ~string_id.ok \/ ~relative_offset.ok
          THEN [acc EXCEPT !.ok = FALSE]
          ELSE IF absolute_offset >= Len(data)
          THEN parse_directory(data, file_type, string_count, i + 1,
                               [acc EXCEPT !.skipped = @ + 1])
          ELSE LET r == read_string_data(absolute_offset, file_type, data) IN
               IF ~r.ok THEN [acc EXCEPT !.ok = FALSE]
               ELSE parse_directory(data, file_type, string_count, i + 1,
                      [acc EXCEPT !.entries = MapInsert(@, string_id.val,
                          [id |-> string_id.val,
                           length |-> r.length,
                           content |-> r.content,
                           raw_data |-> r.raw_data])])

\* StringFile::parse_bytes. The caller gets Ok(entries) or Err; the count of
\* skipped directory entries exists in debug builds only, where it is printed.
parse_bytes(data, file_type, debug) ==
    IF Len(data) < 8 THEN [ok |-> FALSE, entries |-> EmptyMap, printed |-> <<>>]
    ELSE
      LET string_count == read_u32(data, 0).val IN
      IF string_count = 0 THEN [ok |-> TRUE, entries |-> EmptyMap, printed |-> <<>>]
      ELSE LET acc == parse_directory(data, file_type, string_count, 0,
                         [ok |-> TRUE, entries |-> EmptyMap, skipped |-> 0])
           IN  IF ~acc.ok THEN [ok |-> FALSE, entries |-> EmptyMap, printed |-> <<>>]
               ELSE [ok |-> TRUE, entries |-> acc.entries,
                     printed |-> IF debug /\ acc.skipped > 0
                                 THEN << [skipped |-> acc.skipped,
                                          declared |-> string_count,
                                          parsed |-> Cardinality(DOMAIN acc.entries)] >>
                                 ELSE <<>>]

\* ids.sort(): the keys in ascending order
RECURSIVE SortedIds(_)
SortedIds(S) ==
    IF S = {} THEN <<>>
    ELSE LET m == CHOOSE x \in S : \A y \in S : x <= y
         IN  <<m>> \o SortedIds(S \ {m})

\* the offset loop of rebuild: (id, offset) for ids[k..], offset accumulated
RECURSIVE directory_entries(_, _, _, _)
directory_entries(file, ids, k, offset) ==
    IF k > Len(ids) THEN <<>>
    ELSE << <<ids[k], offset>> >>
           \o directory_entries(file, ids, k + 1,
                offset + get_total_size(file.entries[ids[k]], file.file_type))

RECURSIVE SumSizes(_, _)
SumSizes(file, S) ==
    IF S = {} THEN 0
    ELSE LET x == CHOOSE x \in S : TRUE
         IN  get_total_size(file.entries[x], file.file_type) + SumSizes(file, S \ {x})

\* StringFile::rebuild
rebuild(file) ==
    LET count == Cardinality(DOMAIN file.entries)
        data_size == SumSizes(file, DOMAIN file.entries)
        ids == SortedIds(DOMAIN file.entries)
        dir == directory_entries(file, ids, 1, 0)
        dir_bytes == Flatten([k \in 1..Len(dir) |->
                        write_u32(dir[k][1]) \o write_u32(dir[k][2])])
        blob == Flatten([k \in 1..Len(ids) |->
                    LET entry == file.entries[ids[k]] IN
                    (IF has_length_prefix(file.file_type)
                     THEN write_u32(Len(entry.content)) ELSE <<>>)
                    \o entry.content \o <<0>>])
    IN  write_u32(count) \o write_u32(data_size) \o dir_bytes \o blob

\* StringFile::update_string
update_string(file, id, new_content) ==
    IF id \in DOMAIN file.entries
    THEN [ok |-> TRUE,
          file |-> [file EXCEPT !.entries[id] =
                      [@ EXCEPT !.content = new_content,
                                !.raw_data = new_content,
                                !.length = Some(Len(new_content))]]]
    ELSE [ok |-> FALSE, file |-> file]

\* a mutant of add_string: the entry is inserted before the id is looked up,
\* so a present id reports the error after its entry has been replaced
add_string_inserting_first(file, id, content) ==
    [ok |-> id \notin DOMAIN file.entries,
     file |-> [file EXCEPT !.entries =
                 MapInsert(@, id, StringEntry_new(id, content))]]

\* StringFile::add_string
add_string(file, id, content) ==
    IF id \in DOMAIN file.entries
    THEN [ok |-> FALSE, file |-> file]
    ELSE [ok |-> TRUE,
          file |-> [file EXCEPT !.entries =
                      MapInsert(@, id, StringEntry_new(id, content))]]

\* StringFile::remove_string
remove_string(file, id) ==
    IF id \in DOMAIN file.entries
    THEN [removed |-> Some(file.entries[id]),
          file |-> [file EXCEPT !.entries = MapRemove(@, id)]]
    ELSE [removed |-> None, file |-> file]

(***************************************************************************)
(* Extraction of translation units                                         *)
(***************************************************************************)
\* the routes of the plugin's string router (DefaultStringRouter::new): the
\* routes of the router's own tests
routes ==
    (WEAP :> <<FULL, DESC>>) @@ (ARMO :> <<FULL, DESC>>) @@ (NPC_ :> <<FULL, SHRT>>)

\* DefaultStringRouter::get_string_subrecord_types
get_string_subrecord_types(record_type) ==
    IF record_type \in DOMAIN routes THEN Some(routes[record_type]) ELSE None

\* Vec::contains
vec_contains(v, x) == \E i \in 1..Len(v) : v[i] = x

\* a mutant of determine_string_file_type: the subrecord type is looked at
\* before the record type
determine_string_file_type_subrecord_first(record_type, subrecord_type) ==
    IF subrecord_type \in {DESC, CNAM} THEN "DLSTRINGS"
    ELSE IF record_type = INFO THEN "ILSTRINGS"
    ELSE "STRINGS"

\* Plugin::determine_string_file_type
determine_string_file_type(record_type, subrecord_type) ==
    IF record_type = INFO THEN "ILSTRINGS"
    ELSE IF subrecord_type \in {DESC, CNAM} THEN "DLSTRINGS"
    ELSE "STRINGS"

\* format!("{:?}", file_type)
DebugName(file_type) ==
    IF file_type = "DLSTRINGS" THEN <<68, 76, 83, 84, 82, 73, 78, 71, 83>>
    ELSE IF file_type = "ILSTRINGS" THEN <<73, 76, 83, 84, 82, 73, 78, 71, 83>>
    ELSE <<83, 84, 82, 73, 78, 71, 83>>

\* "StringID_"
StringIdPrefix == <<83, 116, 114, 105, 110, 103, 73, 68, 95>>

\* StringFileSet::get_string_by_type; a StringFileSet is [files], a map from
\* the file types present to their StringFile
get_string_by_type(set, file_type, id) ==
    IF file_type \in DOMAIN set.files /\ id \in DOMAIN set.files[file_type].entries
    THEN Some(set.files[file_type].entries[id])
    ELSE None

\* the unit extraction builds: ExtractedString with its index (new_with_index
\* in string_types.rs; strings.rs passes the index to ExtractedString::new)
ExtractedString_new(editor_id, form_id, record_type, subrecord_type, original_text, index) ==
    [editor_id |-> editor_id,
     form_id |-> form_id,
     original_text |-> original_text,
     translated_text |-> None,
     record_type |-> record_type,
     subrecord_type |-> subrecord_type,
     index |-> Some(index)]

\* ExtractedString::get_text_to_apply
get_text_to_apply(unit) ==
    IF unit.translated_text # None THEN unit.translated_text[1] ELSE unit.original_text

\* ExtractedString::get_string_type
get_string_type(unit) == unit.record_type \o <<32>> \o unit.subrecord_type

\* a mutant of get_unique_key: the index is left out of the key
get_unique_key_without_index(unit) ==
    (IF unit.editor_id # None THEN unit.editor_id[1] ELSE <<>>)
      \o <<124>> \o unit.form_id \o <<124>> \o get_string_type(unit)

\* ExtractedString::get_unique_key
get_unique_key(unit) ==
    LET editor_id == IF unit.editor_id # None THEN unit.editor_id[1] ELSE <<>> IN
    IF unit.index # None
    THEN editor_id \o <<124>> \o unit.form_id \o <<124>> \o get_string_type(unit)
           \o <<124>> \o Decimal(unit.index[1])
    ELSE editor_id \o <<124>> \o unit.form_id \o <<124>> \o get_string_type(unit)

\* a mutant of extract_string_from_subrecord_with_index: string id 0 is
\* looked up like any other id
extract_string_looking_up_zero(plugin, subrecord, editor_id, form_id_str, record_type, index) ==
    LET content ==
          IF is_localized(plugin)
          THEN LET string_id == read_u32(subrecord.data, 0) IN
               IF ~string_id.ok THEN None
               ELSE
                 LET file_type == determine_string_file_type(record_type,
                                                             subrecord.record_type)
                 IN  IF plugin.string_files # None
                     THEN LET entry == get_string_by_type(plugin.string_files[1],
                                                          file_type, string_id.val)
                          IN  IF entry # None THEN Some(entry[1].content)
                              ELSE Some(StringIdPrefix \o Decimal(string_id.val)
                                          \o <<95>> \o DebugName(file_type))
                     ELSE Some(StringIdPrefix \o Decimal(string_id.val))
          ELSE Some(parse_zstring(subrecord.data))
    IN  IF content # None /\ is_valid_string(content[1])
        THEN Some(ExtractedString_new(editor_id, form_id_str, record_type,
                                      subrecord.record_type, content[1], index))
        ELSE None

\* Plugin::extract_string_from_subrecord_with_index: Some(unit) or None
extract_string_from_subrecord_with_index(plugin, subrecord, editor_id, form_id_str, record_type, index) ==
    LET content ==
          IF is_localized(plugin)
          THEN LET string_id == read_u32(subrecord.data, 0) IN
               IF ~string_id.ok THEN None
               ELSE IF string_id.val = 0 THEN None
               ELSE
                 LET file_type == determine_string_file_type(record_type,
                                                             subrecord.record_type)
                 IN  IF plugin.string_files # None
                     THEN LET entry == get_string_by_type(plugin.string_files[1],
                                                          file_type, string_id.val)
                          IN  IF entry # None THEN Some(entry[1].content)
                              ELSE Some(StringIdPrefix \o Decimal(string_id.val)
                                          \o <<95>> \o DebugName(file_type))
                     ELSE Some(StringIdPrefix \o Decimal(string_id.val))
          ELSE Some(parse_zstring(subrecord.data))
    IN  IF content # None /\ is_valid_string(content[1])
        THEN Some(ExtractedString_new(editor_id, form_id_str, record_type,
                                      subrecord.record_type, content[1], index))
        ELSE None

RECURSIVE extract_record_loop(_, _, _, _, _, _)

\* a mutant of extract_record_loop: the counter advances only when a unit is
\* emitted
extract_record_loop_counting_units(plugin, record, string_types, k, index, strings) ==
    IF k > Len(record.subrecords) THEN strings
    ELSE
      LET subrecord == record.subrecords[k] IN
      IF vec_contains(string_types, subrecord.record_type)
      THEN LET extracted == extract_string_from_subrecord_with_index(
                              plugin, subrecord, get_editor_id(record),
                              format_form_id_helper(record.form_id, plugin.masters,
                                                    plugin.name),
                              record.record_type, index)
           IN  IF extracted # None
               THEN extract_record_loop(plugin, record, string_types, k + 1,
                                        index + 1, Append(strings, extracted[1]))
               ELSE extract_record_loop(plugin, record, string_types, k + 1,
                                        index, strings)
      ELSE extract_record_loop(plugin, record, string_types, k + 1, index, strings)

\* the subrecord loop of extract_record_strings from subrecord k on
extract_record_loop(plugin, record, string_types, k, index, strings) ==
    IF k > Len(record.subrecords) THEN strings
    ELSE
      LET subrecord == record.subrecords[k] IN
      IF vec_contains(string_types, subrecord.record_type)
      THEN LET extracted == extract_string_from_subrecord_with_index(
                              plugin, subrecord, get_editor_id(record),
                              format_form_id_helper(record.form_id, plugin.masters,
                                                    plugin.name),
                              record.record_type, index)
           IN  extract_record_loop(plugin, record, string_types, k + 1, index + 1,
                                   IF extracted # None
                                   THEN Append(strings, extracted[1])
                                   ELSE strings)
      ELSE extract_record_loop(plugin, record, string_types, k + 1, index, strings)

\* Plugin::extract_record_strings
extract_record_strings(plugin, record) ==
    LET string_types == get_string_subrecord_types(record.record_type) IN
    IF string_types = None THEN <<>>
    ELSE extract_record_loop(plugin, record, string_types[1], 1, 0, <<>>)

\* Plugin::extract_group_strings
RECURSIVE extract_group_strings(_, _)
extract_group_strings(plugin, group) ==
    Flatten([k \in 1..Len(group.children) |->
               IF group.children[k].kind = "Group"
               THEN extract_group_strings(plugin, group.children[k].group)
               ELSE extract_record_strings(plugin, group.children[k].record)])

\* Plugin::extract_strings (the parallel flat_map keeps the order of the groups)
extract_strings(plugin) ==
    Flatten([k \in 1..Len(plugin.groups) |->
               extract_group_strings(plugin, plugin.groups[k])])

(***************************************************************************)
(* Applying translations, and FormID renumbering                           *)
(***************************************************************************)
\* encode_string_with_encoding(text, "utf-8"): the bytes of the text and a NUL
encode_string_with_encoding(text) == text \o <<0>>

\* the key apply_translations_to_record looks a routed subrecord up with
applier_key(editor_id, form_id_str, string_type, index) ==
    (IF editor_id # None THEN editor_id[1] ELSE <<>>) \o <<124>>
      \o form_id_str \o <<124>> \o string_type \o <<124>> \o Decimal(index)

RECURSIVE apply_record_loop(_, _, _, _, _, _, _, _)

\* a mutant of the subrecord loop: a record with a routed subrecord is marked
\* modified even when no translation matches
apply_record_loop_marking_routed(record, translations, string_types, editor_id, form_id_str, k, index, acc) ==
    IF k > Len(record.subrecords) THEN acc
    ELSE
      LET subrecord == record.subrecords[k] IN
      IF vec_contains(string_types, subrecord.record_type)
      THEN
        LET string_type == record.record_type \o <<32>> \o subrecord.record_type
            key == (IF editor_id # None THEN editor_id[1] ELSE <<>>) \o <<124>>
                     \o form_id_str \o <<124>> \o string_type \o <<124>>
                     \o Decimal(index)
            applies == /\ key \in DOMAIN translations
                       /\ get_text_to_apply(translations[key]) # <<>>
            encoded_data == encode_string_with_encoding(
                                get_text_to_apply(translations[key]))
        IN  apply_record_loop(record, translations, string_types, editor_id,
                              form_id_str, k + 1, index + 1,
                              IF applies
                              THEN [subrecords |->
                                      [acc.subrecords EXCEPT ![k] =
                                         [@ EXCEPT !.data = encoded_data,
                                                   !.size = Len(encoded_data) % 65536]],
                                    modified |-> TRUE,
                                    applied_count |-> acc.applied_count + 1]
                              ELSE [acc EXCEPT !.modified = TRUE])
      ELSE apply_record_loop(record, translations, string_types, editor_id,
                             form_id_str, k + 1, index, acc)

\* a mutant of the subrecord loop: a matching translation is applied even
\* when its text is empty
apply_record_loop_applying_empty(record, translations, string_types, editor_id, form_id_str, k, index, acc) ==
    IF k > Len(record.subrecords) THEN acc
    ELSE
      LET subrecord == record.subrecords[k] IN
      IF vec_contains(string_types, subrecord.record_type)
      THEN
        LET string_type == record.record_type \o <<32>> \o subrecord.record_type
            key == (IF editor_id # None THEN editor_id[1] ELSE <<>>) \o <<124>>
                     \o form_id_str \o <<124>> \o string_type \o <<124>>
                     \o Decimal(index)
            applies == key \in DOMAIN translations
            encoded_data == encode_string_with_encoding(
                                get_text_to_apply(translations[key]))
        IN  apply_record_loop(record, translations, string_types, editor_id,
                              form_id_str, k + 1, index + 1,
                              IF applies
                              THEN [subrecords |->
                                      [acc.subrecords EXCEPT ![k] =
                                         [@ EXCEPT !.data = encoded_data,
                                                   !.size = Len(encoded_data) % 65536]],
                                    modified |-> TRUE,
                                    applied_count |-> acc.applied_count + 1]
                              ELSE acc)
      ELSE apply_record_loop(record, translations, string_types, editor_id,
                             form_id_str, k + 1, index, acc)

\* the subrecord loop of apply_translations_to_record from subrecord k on;
\* acc = [subrecords, modified, applied_count]
apply_record_loop(record, translations, string_types, editor_id, form_id_str, k, index, acc) ==
    IF k > Len(record.subrecords) THEN acc
    ELSE
      LET subrecord == record.subrecords[k] IN
      IF vec_contains(string_types, subrecord.record_type)
      THEN
        LET string_type == record.record_type \o <<32>> \o subrecord.record_type
            key == applier_key(editor_id, form_id_str, string_type, index)
            applies == /\ key \in DOMAIN translations
                       /\ get_text_to_apply(translations[key]) # <<>>
            encoded_data == encode_string_with_encoding(
                                get_text_to_apply(translations[key]))
        IN  apply_record_loop(record, translations, string_types, editor_id,
                              form_id_str, k + 1, index + 1,
                              IF applies
                              THEN [subrecords |->
                                      [acc.subrecords EXCEPT ![k] =
                                         [@ EXCEPT !.data = encoded_data,
                                                   !.size = Len(encoded_data) % 65536]],
                                    modified |-> TRUE,
                                    applied_count |-> acc.applied_count + 1]
                              ELSE acc)
      ELSE apply_record_loop(record, translations, string_types, editor_id,
                             form_id_str, k + 1, index, acc)

\* apply_translations_to_record: [record, count]
apply_translations_to_record(record, translations, masters, plugin_name) ==
    LET string_types == get_string_subrecord_types(record.record_type) IN
    IF string_types = None THEN [record |-> record, count |-> 0]
    ELSE
      LET acc == apply_record_loop(record, translations, string_types[1],
                                   get_editor_id(record),
                                   format_form_id_helper(record.form_id, masters,
                                                         plugin_name),
                                   1, 0,
                                   [subrecords |-> record.subrecords,
                                    modified |-> FALSE, applied_count |-> 0])
          applied == [record EXCEPT !.subrecords = acc.subrecords]
      IN  [record |-> IF acc.modified THEN mark_modified(applied) ELSE applied,
           count |-> acc.applied_count]

\* apply_translations_to_group: [group, count]
RECURSIVE apply_translations_to_group(_, _, _, _)
RECURSIVE apply_children(_, _, _, _, _, _)

\* a child after the applier: the group of g, the record of r, with the count
GroupChild_applied_group(g) ==
    [child |-> [kind |-> "Group", group |-> g.group], count |-> g.count]

GroupChild_applied_record(r) ==
    [child |-> [kind |-> "Record", record |-> r.record], count |-> r.count]

\* one turn of the child loop of apply_translations_to_group
apply_child(child, translations, masters, plugin_name) ==
    IF child.kind = "Group"
    THEN GroupChild_applied_group(
             apply_translations_to_group(child.group, translations, masters,
                                         plugin_name))
    ELSE GroupChild_applied_record(
             apply_translations_to_record(child.record, translations, masters,
                                          plugin_name))

\* the child loop after child k has become c.child
apply_children_after(children, translations, masters, plugin_name, k, count, c) ==
    apply_children([children EXCEPT ![k] = c.child], translations, masters,
                   plugin_name, k + 1, count + c.count)

apply_children(children, translations, masters, plugin_name, k, count) ==
    IF k > Len(children) THEN [children |-> children, count |-> count]
    ELSE apply_children_after(children, translations, masters, plugin_name, k, count,
             apply_child(children[k], translations, masters, plugin_name))

\* the group with the children c.children
Group_applied(group, c) ==
    [group |-> [group EXCEPT !.children = c.children], count |-> c.count]

apply_translations_to_group(group, translations, masters, plugin_name) ==
    Group_applied(group, apply_children(group.children, translations, masters,
                                        plugin_name, 1, 0))

\* the group loop of apply_translation_map from group k on
RECURSIVE apply_groups(_, _, _, _, _, _)

\* the group loop after group k has become g.group
apply_groups_after(groups, translations, masters, plugin_name, k, applied_count, g) ==
    apply_groups([groups EXCEPT ![k] = g.group], translations, masters,
                 plugin_name, k + 1, applied_count + g.count)

apply_groups(groups, translations, masters, plugin_name, k, applied_count) ==
    IF k > Len(groups) THEN [groups |-> groups, applied_count |-> applied_count]
    ELSE apply_groups_after(groups, translations, masters, plugin_name, k,
             applied_count,
             apply_translations_to_group(groups[k], translations, masters,
                                         plugin_name))

\* what apply_translation_map leaves and prints when its group loop ends
\* with a = [groups, applied_count]
translation_map_applied(plugin, a) ==
    [ok |-> TRUE,
     plugin |-> [plugin EXCEPT !.groups = a.groups],
     applied_count |-> a.applied_count,
     warning |-> a.applied_count = 0]

\* Plugin::apply_translation_map: always Ok; the count of applied
\* translations is printed, with a warning when it is 0
apply_translation_map(plugin, translations) ==
    translation_map_applied(plugin,
        apply_groups(plugin.groups, translations, plugin.masters, plugin.name,
                     1, 0))

\* Plugin::create_translation_map: a later unit replaces an earlier one with
\* the same key
RECURSIVE create_translation_map_from(_, _, _)
create_translation_map_from(translations, k, map) ==
    IF k > Len(translations) THEN map
    ELSE create_translation_map_from(translations, k + 1,
             MapInsert(map, get_unique_key(translations[k]), translations[k]))

create_translation_map(translations) ==
    create_translation_map_from(translations, 1, EmptyMap)

\* the second half of apply_translations_to_esp: the file is written
esp_written(a) ==
    [ok |-> TRUE,
     plugin |-> a.plugin,
     applied_count |-> a.applied_count,
     warning |-> a.warning,
     output |-> write_to_file(a.plugin)]

\* Plugin::apply_translations_to_esp: the map is applied and the file written
apply_translations_to_esp(plugin, translations) ==
    esp_written(apply_translation_map(plugin, create_translation_map(translations)))

\* the key build_string_id_map_from_record files a routed subrecord under
string_id_map_key(editor_id, form_id_str, record_type, subrecord_type, index) ==
    (IF editor_id # None THEN editor_id[1] ELSE <<>>) \o <<124>>
      \o form_id_str \o <<124>> \o record_type \o <<32>> \o subrecord_type
      \o <<124>> \o Decimal(index)

\* a mutant of build_string_id_map_loop: the counter advances only when the
\* string id could be read
RECURSIVE build_string_id_map_loop_counting_read(_, _, _, _, _, _)
build_string_id_map_loop_counting_read(plugin, record, types, k, index, map) ==
    IF k > Len(record.subrecords) THEN map
    ELSE
      LET subrecord == record.subrecords[k] IN
      IF types # None /\ vec_contains(types[1], subrecord.record_type)
      THEN
        LET string_id == read_u32(subrecord.data, 0)
            editor_id == get_editor_id(record)
            key == string_id_map_key(editor_id,
                       format_form_id_helper(record.form_id, plugin.masters,
                                             plugin.name),
                       record.record_type, subrecord.record_type, index)
            file_type == determine_string_file_type(record.record_type,
                                                    subrecord.record_type)
        IN  IF string_id.ok
            THEN build_string_id_map_loop_counting_read(plugin, record, types, k + 1,
                   index + 1,
                   MapInsert(map, key, [file_type |-> file_type,
                                        string_id |-> string_id.val]))
            ELSE build_string_id_map_loop_counting_read(plugin, record, types, k + 1,
                   index, map)
      ELSE build_string_id_map_loop_counting_read(plugin, record, types, k + 1, index,
                                                  map)

\* build_string_id_map_from_record, from subrecord k on
RECURSIVE build_string_id_map_loop(_, _, _, _, _, _)
build_string_id_map_loop(plugin, record, types, k, index, map) ==
    IF k > Len(record.subrecords) THEN map
    ELSE
      LET subrecord == record.subrecords[k] IN
      IF types # None /\ vec_contains(types[1], subrecord.record_type)
      THEN
        LET string_id == read_u32(subrecord.data, 0)
            editor_id == get_editor_id(record)
            key == string_id_map_key(editor_id,
                       format_form_id_helper(record.form_id, plugin.masters,
                                             plugin.name),
                       record.record_type, subrecord.record_type, index)
            file_type == determine_string_file_type(record.record_type,
                                                    subrecord.record_type)
        IN  build_string_id_map_loop(plugin, record, types, k + 1, index + 1,
              IF string_id.ok
              THEN MapInsert(map, key, [file_type |-> file_type,
                                        string_id |-> string_id.val])
              ELSE map)
      ELSE build_string_id_map_loop(plugin, record, types, k + 1, index, map)

\* Plugin::build_string_id_map_from_record
build_string_id_map_from_record(plugin, record, map) ==
    build_string_id_map_loop(plugin, record,
                             get_string_subrecord_types(record.record_type),
                             1, 0, map)

\* Plugin::build_string_id_map_from_group
RECURSIVE build_string_id_map_from_group(_, _, _)
RECURSIVE build_string_id_map_children(_, _, _, _)
build_string_id_map_children(plugin, children, k, map) ==
    IF k > Len(children) THEN map
    ELSE build_string_id_map_children(plugin, children, k + 1,
           IF children[k].kind = "Group"
           THEN build_string_id_map_from_group(plugin, children[k].group, map)
           ELSE build_string_id_map_from_record(plugin, children[k].record, map))

build_string_id_map_from_group(plugin, group, map) ==
    build_string_id_map_children(plugin, group.children, 1, map)

RECURSIVE build_string_id_map(_, _, _)
build_string_id_map(plugin, k, map) ==
    IF k > Len(plugin.groups) THEN map
    ELSE build_string_id_map(plugin, k + 1,
             build_string_id_map_from_group(plugin, plugin.groups[k], map))

\* StringFileSet::update_string
set_update_string(set, file_type, id, new_content) ==
    IF file_type \in DOMAIN set.files
    THEN LET r == update_string(set.files[file_type], id, new_content) IN
         [ok |-> r.ok, set |-> [set EXCEPT !.files[file_type] = r.file]]
    ELSE [ok |-> FALSE, set |-> set]

\* the translation loop of apply_translations_to_string_files from unit k on
RECURSIVE apply_to_string_files_loop(_, _, _, _, _)
apply_to_string_files_loop(translations, string_id_map, k, set, applied_count) ==
    IF k > Len(translations) THEN [set |-> set, applied_count |-> applied_count]
    ELSE
      LET key == get_unique_key(translations[k]) IN
      IF key \in DOMAIN string_id_map
      THEN LET r == set_update_string(set, string_id_map[key].file_type,
                                      string_id_map[key].string_id,
                                      get_text_to_apply(translations[k]))
           IN  apply_to_string_files_loop(translations, string_id_map, k + 1, r.set,
                                          IF r.ok THEN applied_count + 1
                                          ELSE applied_count)
      ELSE apply_to_string_files_loop(translations, string_id_map, k + 1, set,
                                      applied_count)

\* StringFileSet::write_all: the bytes written for each file of the set
write_all(set) == [t \in DOMAIN set.files |-> rebuild(set.files[t])]

\* Plugin::apply_translations_to_string_files
apply_translations_to_string_files(plugin, translations) ==
    LET string_id_map == build_string_id_map(plugin, 1, EmptyMap) IN
    IF plugin.string_files = None
    THEN [ok |-> FALSE, plugin |-> plugin]
    ELSE LET a == apply_to_string_files_loop(translations, string_id_map, 1,
                                             plugin.string_files[1], 0)
         IN  [ok |-> TRUE,
              plugin |-> [plugin EXCEPT !.string_files = Some(a.set)],
              applied_count |-> a.applied_count,
              written |-> write_all(a.set)]

\* Plugin::apply_translations_unified
apply_translations_unified(plugin, translations) ==
    IF is_localized(plugin)
    THEN apply_translations_to_string_files(plugin, translations)
    ELSE apply_translations_to_esp(plugin, translations)

\* Plugin::set_string_files
set_string_files(plugin, string_files) ==
    [plugin EXCEPT !.string_files = Some(string_files)]

\* the record loop of eslify_formids over the records of a group, in the
\* order extract_group_records_mut collects them;
\* st = [current_formid, err]: the counter, and whether the limit error has
\* been returned (after which no further record is touched)
eslify_record(record, masters, st) ==
    LET master_index == record.form_id \div 16777216 IN
    IF st.err \/ master_index < Len(masters)
    THEN [item |-> record, st |-> st]
    ELSE LET high_bits == record.form_id - (record.form_id % 4096)
             new_formid == high_bits + (st.current_formid % 4096)
         IN  [item |-> [record EXCEPT !.form_id = new_formid, !.is_modified = TRUE],
              st |-> [current_formid |-> st.current_formid + 1,
                      err |-> st.current_formid + 1 > 4095]]

\* the records of one child, a nested group's records in place
RECURSIVE eslify_group(_, _, _)
eslify_child(child, masters, st) ==
    IF child.kind = "Group"
    THEN LET g == eslify_group(child.group, masters, st) IN
         [item |-> << [child EXCEPT !.group = g.item] >>, st |-> g.st]
    ELSE LET r == eslify_record(child.record, masters, st) IN
         [item |-> << [child EXCEPT !.record = r.item] >>, st |-> r.st]

\* the children lo..hi in order, the counter handed from each to the next;
\* the range is halved so that the nesting of the evaluation stays
\* logarithmic in the number of records
eslify_joined(left, right) ==
    [item |-> left.item \o right.item, st |-> right.st]

RECURSIVE eslify_children(_, _, _, _, _)
eslify_children_after(children, masters, lo, hi, left) ==
    eslify_joined(left, eslify_children(children, masters, lo, hi, left.st))

eslify_children(children, masters, lo, hi, st) ==
    IF lo > hi THEN [item |-> <<>>, st |-> st]
    ELSE IF lo = hi THEN eslify_child(children[lo], masters, st)
    ELSE eslify_children_after(children, masters, (lo + hi) \div 2 + 1, hi,
             eslify_children(children, masters, lo, (lo + hi) \div 2, st))

eslify_group(group, masters, st) ==
    LET c == eslify_children(group.children, masters, 1, Len(group.children), st) IN
    [item |-> [group EXCEPT !.children = c.item], st |-> c.st]

RECURSIVE eslify_groups(_, _, _, _)
eslify_groups(groups, masters, k, st) ==
    IF k > Len(groups) THEN [item |-> groups, st |-> st]
    ELSE LET g == eslify_group(groups[k], masters, st) IN
         eslify_groups([groups EXCEPT ![k] = g.item], masters, k + 1, g.st)

\* Plugin::eslify_formids: [ok, plugin]
eslify_formids(plugin) ==
    LET e == eslify_groups(plugin.groups, plugin.masters, 1,
                           [current_formid |-> 2048, err |-> FALSE])
    IN  [ok |-> ~e.st.err, plugin |-> [plugin EXCEPT !.groups = e.item]]

(***************************************************************************)
(* Inputs of the string-table operations                                   *)
(***************************************************************************)
\* the characters texts are made of, each as its UTF-8 bytes:
\* NUL and U+00E9 (two bytes)
TextChars == { <<0>>, <<195, 169>> }

RECURSIVE TextsOfLen(_)
TextsOfLen(n) ==
    IF n = 0 THEN { <<>> }
    ELSE { c \o t : c \in TextChars, t \in TextsOfLen(n - 1) }

Texts == UNION { TextsOfLen(n) : n \in 0..MaxTextChars }

StringIds == 1..MaxStringId

(***************************************************************************)
(* SpecStrings: a StringFile under add / update / remove; rebuild gives    *)
(* the bytes of the table file, which may be damaged on disk, and          *)
(* from_bytes parses them into a new StringFile that the program may       *)
(* continue with.                                                          *)
(***************************************************************************)
SfInit ==
    /\ sf \in { [file_type |-> t, entries |-> EmptyMap] : t \in StringFileType }
    /\ sf_result = [op |-> "new"]
    /\ debug_assertions \in BOOLEAN
    /\ RecIdle
    /\ PlIdle
    /\ RtIdle
    /\ EdIdle
    /\ PgIdle
    /\ CxIdle

AddString ==
    \E id \in StringIds, text \in Texts :
        LET r == add_string(sf, id, text) IN
        /\ sf' = r.file
        /\ sf_result' = [op |-> "add_string", id |-> id, ok |-> r.ok]
        /\ UNCHANGED <<debug_assertions, recvars, plvars, rtvars, edvars, pgvars, cxvars>>

UpdateString ==
    \E id \in StringIds, text \in Texts :
        LET r == update_string(sf, id, text) IN
        /\ sf' = r.file
        /\ sf_result' = [op |-> "update_string", id |-> id, ok |-> r.ok]
        /\ UNCHANGED <<debug_assertions, recvars, plvars, rtvars, edvars, pgvars, cxvars>>

RemoveString ==
    \E id \in StringIds :
        LET r == remove_string(sf, id) IN
        /\ sf' = r.file
        /\ sf_result' = [op |-> "remove_string", id |-> id, removed |-> r.removed]
        /\ UNCHANGED <<debug_assertions, recvars, plvars, rtvars, edvars, pgvars, cxvars>>

\* StringFile::rebuild: the bytes write_to_file puts on disk
Rebuild ==
    /\ sf_result' = [op |-> "rebuild", ok |-> TRUE, data |-> rebuild(sf)]
    /\ UNCHANGED <<sf, debug_assertions, recvars, plvars, rtvars, edvars, pgvars, cxvars>>

\* the file is damaged on disk: the offset of directory entry i is overwritten
\* with one at or past the end of the data blob
DamageOffset ==
    /\ sf_result.op = "rebuild"
    /\ LET data == sf_result.data
           n == read_u32(data, 0).val
       IN  \E i \in 0..(n - 1), bad \in {Len(data) - 8 - 8 * n, Len(data)} :
             LET at == 8 + i * 8 + 4
                 patch == write_u32(bad)
             IN  sf_result' =
                   [op |-> "damaged",
                    data |-> [p \in 1..Len(data) |->
                                IF p > at /\ p <= at + 4 THEN patch[p - at]
                                ELSE data[p]]]
    /\ UNCHANGED <<sf, debug_assertions, recvars, plvars, rtvars, edvars, pgvars, cxvars>>

\* StringFile::from_bytes on the bytes at hand: a new StringFile, or an error
FromBytes ==
    /\ sf_result.op \in {"rebuild", "damaged"}
    /\ LET r == parse_bytes(sf_result.data, sf.file_type, debug_assertions) IN
       sf_result' = [op |-> "from_bytes", ok |-> r.ok, data |-> sf_result.data,
                     entries |-> r.entries, printed |-> r.printed]
    /\ UNCHANGED <<sf, debug_assertions, recvars, plvars, rtvars, edvars, pgvars, cxvars>>

\* the program goes on with the StringFile that from_bytes returned
Reopen ==
    /\ sf_result.op = "from_bytes"
    /\ sf_result.ok
    /\ sf' = [sf EXCEPT !.entries = sf_result.entries]
    /\ sf_result' = [op |-> "new"]
    /\ UNCHANGED <<debug_assertions, recvars, plvars, rtvars, edvars, pgvars, cxvars>>

SfNext ==
    \/ AddString
    \/ UpdateString
    \/ RemoveString
    \/ Rebuild
    \/ DamageOffset
    \/ FromBytes
    \/ Reopen

SpecStrings == SfInit /\ [][SfNext]_vars

(***************************************************************************)
(* Claims about the string-table codec (checked under SpecStrings)         *)
(***************************************************************************)
\* the id -> text mapping of a table
Contents(entries) == [id \in DOMAIN entries |-> entries[id].content]

HasNul(text) == position_nul(text) # None

\* the serialized form of one entry, from its current text
EntryBytes(file_type, content) ==
    (IF has_length_prefix(file_type) THEN write_u32(Len(content)) ELSE <<>>)
        \o content \o <<0>>

\* from_bytes has just parsed exactly the bytes rebuild gives for sf
ParsedTheRebuild ==
    /\ sf_result.op = "from_bytes"
    /\ sf_result.data = rebuild(sf)

\* C8 as stated: for every table kind and every id -> text mapping reachable
\* by add_string / update_string / remove_string, parsing the bytes produced
\* by rebuild yields the same ids with identical text for every id.
C8_RoundTripAnyText ==
    ParsedTheRebuild =>
        /\ sf_result.ok
        /\ Contents(sf_result.entries) = Contents(sf.entries)

\* C8 amended: the round trip rebuild -> parse reproduces the id -> text
\* mapping whenever no text of the table contains a NUL character.
C8_RoundTripNulFreeText ==
    (ParsedTheRebuild /\ \A id \in DOMAIN sf.entries : ~HasNul(sf.entries[id].content))
        => /\ sf_result.ok
           /\ Contents(sf_result.entries) = Contents(sf.entries)

\* a rebuilt table of two entries, one of them with a two-byte character and
\* none with a NUL, has been parsed back
C8_Witness ==
    /\ ParsedTheRebuild
    /\ Cardinality(DOMAIN sf.entries) = 2
    /\ \A id \in DOMAIN sf.entries : ~HasNul(sf.entries[id].content)
    /\ \E id \in DOMAIN sf.entries : sf.entries[id].content = <<195, 169>>
    /\ \E id \in DOMAIN sf.entries : sf.entries[id].raw_data # sf.entries[id].content

\* C9: in the bytes produced by rebuild the header count is the number of
\* entries, the header data size is the length of the data blob, the
\* directory ids are strictly ascending, and every directory offset is the
\* blob position where that entry's data starts: the sum of the serialized
\* sizes, from the current text, of the entries with a smaller id.
C9_RebuildLayout ==
    sf_result.op = "rebuild" =>
        LET data == sf_result.data
            ids == DOMAIN sf.entries
            n == Cardinality(ids)
            blob_start == 8 + 8 * n
            dir_id(i) == read_u32(data, 8 + 8 * i).val
            dir_off(i) == read_u32(data, 8 + 8 * i + 4).val
            Before(id) == { j \in ids : j < id }
            Start(id) ==
                LET RECURSIVE Sum(_)
                    Sum(S) == IF S = {} THEN 0
                              ELSE LET j == CHOOSE j \in S : TRUE
                                   IN  Len(EntryBytes(sf.file_type, sf.entries[j].content))
                                         + Sum(S \ {j})
                IN  Sum(Before(id))
        IN  /\ Len(data) >= blob_start
            /\ read_u32(data, 0).val = n
            /\ read_u32(data, 4).val = Len(data) - blob_start
            /\ \A i \in 0..(n - 1) : dir_id(i) \in ids
            /\ \A i \in 0..(n - 2) : dir_id(i) < dir_id(i + 1)
            /\ \A i \in 0..(n - 1) :
                 LET e == EntryBytes(sf.file_type, sf.entries[dir_id(i)].content) IN
                 /\ dir_off(i) = Start(dir_id(i))
                 /\ Slice(data, blob_start + dir_off(i),
                          blob_start + dir_off(i) + Len(e)) = e

\* a table whose entries were parsed from a file (their cached raw bytes
\* differ from the text) and then edited has been rebuilt
C9_Witness ==
    /\ sf_result.op = "rebuild"
    /\ Cardinality(DOMAIN sf.entries) = 2
    /\ \E id \in DOMAIN sf.entries :
         /\ sf.entries[id].raw_data # sf.entries[id].content
         /\ sf.entries[id].content # <<>>
    /\ \E id \in DOMAIN sf.entries : sf.entries[id].length = Some(Len(sf.entries[id].content))

\* the directory entries of a table file whose offset points at or past the
\* end of the file
OutOfRange(data) ==
    LET n == read_u32(data, 0).val IN
    { i \in 0..(n - 1) : 8 + 8 * n + read_u32(data, 8 + 8 * i + 4).val >= Len(data) }

\* the number of skipped entries the parse made known (its warning, if any)
ReportedSkipped(result) ==
    IF result.printed = <<>> THEN 0 ELSE result.printed[1].skipped

\* C10: parsing a table whose header declares n entries, exactly one of which
\* has an out-of-range offset (the others well-formed, ids distinct),
\* succeeds with exactly n-1 entries and reports that 1 entry was skipped.
C10_OneSkippedAndReported ==
    (sf_result.op = "from_bytes" /\ Cardinality(OutOfRange(sf_result.data)) = 1)
        => /\ sf_result.ok
           /\ Cardinality(DOMAIN sf_result.entries) = read_u32(sf_result.data, 0).val - 1
           /\ ReportedSkipped(sf_result) = 1

\* the part of C10 the code does keep: the parse succeeds with the n-1
\* entries that are in range, whatever the build profile
C10_OneSkipped ==
    (sf_result.op = "from_bytes" /\ Cardinality(OutOfRange(sf_result.data)) = 1)
        => /\ sf_result.ok
           /\ Cardinality(DOMAIN sf_result.entries) = read_u32(sf_result.data, 0).val - 1
           /\ debug_assertions => ReportedSkipped(sf_result) = 1

(***************************************************************************)
(* SpecRecord: one record is parsed from a byte buffer, possibly marked    *)
(* modified, and written back.                                             *)
(***************************************************************************)
\* a subrecord as it lies in a file
SubrecordBytes(type, data) == type \o write_u16(Len(data)) \o data

\* a 24-byte record header as it lies in a file
RecordHeaderBytes(type, data_size, flags, form_id) ==
    type \o write_u32(data_size) \o write_u32(flags) \o write_u32(form_id)
         \o write_u16(513) \o write_u16(1027) \o write_u16(44) \o write_u16(1541)

\* a compressed payload: the decompressed size, then a zlib stream at some level
CompressedBytes(inner, level) ==
    write_u32(Len(inner)) \o <<120, level>> \o inner \o <<ZlibChecksum(inner)>>

\* k bytes that follow the last subrecord of a payload: all zero, or zero
\* but for the last or the first of them
Zeros(k) == [i \in 1..k |-> 0]

PaddingOfLen(k) ==
    { Zeros(k), Zeros(k - 1) \o <<7>>, <<7>> \o Zeros(k - 1) }

\* well-formed payloads with the subrecords they consist of
WellFormedPayloads ==
    LET full == [record_type_bytes |-> FULL, record_type |-> FULL,
                 size |-> 2, data |-> <<65, 0>>]
        edid == [record_type_bytes |-> EDID, record_type |-> EDID,
                 size |-> 2, data |-> <<69, 0>>]
    IN  { [bytes |-> SubrecordBytes(FULL, <<65, 0>>), subrecords |-> <<full>>],
          [bytes |-> SubrecordBytes(EDID, <<69, 0>>) \o SubrecordBytes(FULL, <<65, 0>>),
           subrecords |-> <<edid, full>>] }

\* the well-formed payloads followed by 1..MaxPadding bytes
PaddedPayloads ==
    { w.bytes \o t : w \in WellFormedPayloads,
                     t \in UNION { PaddingOfLen(k) : k \in 1..MaxPadding } }

\* record payloads: well-formed, padded, damaged, with an XXXX escape (alone,
\* between other subrecords, and with a sentinel of size 3), and
\* compressed ones (valid at several levels, and damaged in each way
\* decompress_data tells apart)
RecordPayloads ==
    PaddedPayloads \cup
    LET one == SubrecordBytes(FULL, <<65, 0>>)
        two == SubrecordBytes(EDID, <<69, 0>>) \o one
        padded == one \o <<0, 0, 0>>
        garbage == one \o <<1, 0, 0>>
        overrun == FULL \o write_u16(9) \o <<65, 0>>
        big == XXXX \o write_u16(4) \o write_u32(2) \o FULL \o write_u16(0) \o <<66, 0>>
        badbig == XXXX \o write_u16(3) \o <<2, 0, 0>> \o FULL \o write_u16(0) \o <<66, 0>>
    IN  { <<>>, one, two, padded, garbage, overrun, big, one \o big \o one, badbig,
          CompressedBytes(one, 156), CompressedBytes(two, 1),
          CompressedBytes(padded, 218), CompressedBytes(big, 156),
          CompressedBytes(garbage, 156),
          write_u32(Len(one) + 1) \o Deflate(one),
          write_u32(0) \o Deflate(<<>>),
          <<1, 2>>,
          write_u32(8),
          write_u32(3) \o <<120, 156, 1, 2, 3, 9>> }

\* bytes that follow the record in the buffer
RECURSIVE TrailingOfLen(_)
TrailingOfLen(n) ==
    IF n = 0 THEN { <<>> }
    ELSE { <<b>> \o t : b \in {0, 7}, t \in TrailingOfLen(n - 1) }

RecordInputs ==
    { RecordHeaderBytes(type, Len(payload) + extra, flags, 16779265) \o payload \o trailing :
        type \in {WEAP, <<255, 69, 65, 80>>},
        flags \in {0, COMPRESSED, COMPRESSED + LOCALIZED},
        payload \in RecordPayloads,
        extra \in {0, 1},
        trailing \in UNION { TrailingOfLen(n) : n \in 0..MaxTrailing } }

RecInit ==
    /\ rec_data \in RecordInputs
    /\ rec_parsed = None
    /\ rec_output = None
    /\ SfIdle
    /\ PlIdle
    /\ RtIdle
    /\ EdIdle
    /\ PgIdle
    /\ CxIdle

\* Record::parse on a cursor at the start of the buffer
RecordParse ==
    /\ rec_parsed = None
    /\ rec_parsed' = Some(Record_parse(rec_data, 0))
    /\ UNCHANGED <<rec_data, rec_output, sfvars, plvars, rtvars, edvars, pgvars, cxvars>>

\* Record::mark_modified on the parsed record
MarkModified ==
    /\ rec_parsed # None
    /\ rec_parsed[1].ok
    /\ rec_output = None
    /\ rec_parsed' = Some([rec_parsed[1] EXCEPT !.record = mark_modified(@)])
    /\ UNCHANGED <<rec_data, rec_output, sfvars, plvars, rtvars, edvars, pgvars, cxvars>>

\* Plugin::write_record of the parsed record into an empty output
WriteRecord ==
    /\ rec_parsed # None
    /\ rec_parsed[1].ok
    /\ rec_output = None
    /\ rec_output' = Some(write_record(rec_parsed[1].record, <<>>))
    /\ UNCHANGED <<rec_data, rec_parsed, sfvars, plvars, rtvars, edvars, pgvars, cxvars>>

RecNext ==
    \/ RecordParse
    \/ MarkModified
    \/ WriteRecord

SpecRecord == RecInit /\ [][RecNext]_vars

(***************************************************************************)
(* Claims about the record codec (checked under SpecRecord)                *)
(***************************************************************************)
\* the bytes of the record at the start of the buffer: its 24-byte header
\* and the payload whose length the header declares
ParsedBytes(data) == Slice(data, 0, 24 + read_u32(data, 4).val)

\* C1: for every record that Record::parse accepts and that is not modified
\* afterwards, write_record emits exactly the bytes that were parsed (the
\* 24-byte header followed by the payload), whether the record is
\* uncompressed, compressed and decompressed, or compressed with a failed
\* decompression.
C1_UnmodifiedRoundTrip ==
    (rec_output # None /\ ~rec_parsed[1].record.is_modified)
        => rec_output[1] = ParsedBytes(rec_data)

\* an unmodified compressed record whose stream was decompressed (at a level
\* other than the encoder's default) and whose payload ends in padding has
\* been written
C1_Witness ==
    /\ rec_output # None
    /\ ~rec_parsed[1].record.is_modified
    /\ HasFlag(rec_parsed[1].record.flags, COMPRESSED)
    /\ rec_parsed[1].record.subrecords # <<>>
    /\ rec_parsed[1].record.raw_data = SubrecordBytes(FULL, <<65, 0>>) \o <<0, 0, 0>>
    /\ Len(rec_data) > Len(rec_output[1])

\* the other two kinds of record C1 names, written unmodified: an
\* uncompressed record, and a compressed one whose decompression failed
C1_UncompressedCase ==
    /\ rec_output # None
    /\ ~rec_parsed[1].record.is_modified
    /\ ~HasFlag(rec_parsed[1].record.flags, COMPRESSED)
    /\ Len(rec_parsed[1].record.subrecords) = 2

C1_OpaqueCase ==
    /\ rec_output # None
    /\ ~rec_parsed[1].record.is_modified
    /\ HasFlag(rec_parsed[1].record.flags, COMPRESSED)
    /\ rec_parsed[1].record.raw_data = rec_parsed[1].record.original_compressed_data[1]
    /\ Len(rec_parsed[1].record.raw_data) > 4

(***************************************************************************)
(* SpecPlugin: a plugin loaded from a file; its strings are extracted,     *)
(* translations are applied, FormIDs are renumbered, and it is written.    *)
(***************************************************************************)
\* a record as it lies in a file
RecordBytes(type, flags, form_id, payload) ==
    RecordHeaderBytes(type, Len(payload), flags, form_id) \o payload

\* a group as it lies in a file
GroupBytes(label, group_type, children) ==
    GRUP \o write_u32(24 + Len(children)) \o label \o write_i32(group_type)
         \o write_u16(2057) \o write_u16(2571) \o write_u32(3085) \o children

\* "p.esp" and "m.esm"
PluginName == <<112, 46, 101, 115, 112>>
MasterName == <<109, 46, 101, 115, 109>>

\* a file with one record of two routed subrecords of the same type, whose
\* payloads are drawn: plain text, text in windows-1252, text without its
\* NUL, text behind byte order marks
SwapFile(first, second) ==
    RecordBytes(TES4, 0, 0, SubrecordBytes(DATA, <<1>>))
      \o GroupBytes(WEAP, 0,
           RecordBytes(WEAP, 0, 2049,
               SubrecordBytes(EDID, <<69, 0>>) \o SubrecordBytes(FULL, first)
            \o SubrecordBytes(DATA, <<1>>) \o SubrecordBytes(FULL, second)))

SwapFiles ==
    { SwapFile(<<89, 0>>, <<78, 0>>),
      SwapFile(<<233, 0>>, <<89>>),
      SwapFile(Utf8Bom \o Utf8Bom \o <<65, 0>>, <<66, 0>>) }

\* a file with a master, nested groups, records owned by the master and by
\* the plugin, a routed subrecord without valid text before one with valid
\* text, padding, a compressed record, an opaque record, an unrouted record
TreeFile ==
    RecordBytes(TES4, 0, 0, SubrecordBytes(MAST, MasterName \o <<0>>)
                              \o SubrecordBytes(DATA, <<1>>))
      \o GroupBytes(WEAP, 0,
              RecordBytes(WEAP, 0, 16779265,
                  SubrecordBytes(EDID, <<87, 0>>)
               \o SubrecordBytes(FULL, <<97, 95, 98, 0>>)
               \o SubrecordBytes(DESC, <<68, 0>>) \o <<0, 0>>)
           \o GroupBytes(<<1, 0, 0, 0>>, 6,
                  RecordBytes(ARMO, COMPRESSED, 2050,
                      CompressedBytes(SubrecordBytes(FULL, <<65, 0>>), 1))
               \o RecordBytes(ARMO, COMPRESSED, 16779267, <<1, 2>>)))
      \o GroupBytes(MISC, 7,
              RecordBytes(MISC, 0, 16779268, SubrecordBytes(FULL, <<90, 0>>)))

\* a localized file: routed subrecords holding string ids, among them id 0,
\* a payload shorter than 4 bytes, and an id no table holds
LocalizedFile ==
    RecordBytes(TES4, LOCALIZED, 0, SubrecordBytes(DATA, <<1>>))
      \o GroupBytes(WEAP, 0,
           RecordBytes(WEAP, 0, 2049,
               SubrecordBytes(EDID, <<76, 0>>)
            \o SubrecordBytes(FULL, write_u32(0))
            \o SubrecordBytes(FULL, <<1, 0>>)
            \o SubrecordBytes(DESC, write_u32(0))
            \o SubrecordBytes(FULL, write_u32(1))
            \o SubrecordBytes(DESC, write_u32(2))
            \o SubrecordBytes(FULL, write_u32(5))))

PluginFiles ==
    { [name |-> PluginName, data |-> d] : d \in SwapFiles \cup {TreeFile, LocalizedFile} }

\* a StringFile of the given type with the given id -> text mapping
StringFileOf(file_type, texts) ==
    [file_type |-> file_type,
     entries |-> [id \in DOMAIN texts |-> StringEntry_new(id, texts[id])]]

\* the string tables a localized plugin may be given: with and without an
\* entry for id 0, with and without a dialog table
StringFileSets ==
    { [files |-> ("STRINGS" :> StringFileOf("STRINGS", (0 :> <<90>>) @@ (1 :> <<79>>)))
                 @@ ("DLSTRINGS" :> StringFileOf("DLSTRINGS", (0 :> <<122>>) @@ (2 :> <<84>>)))],
      [files |-> ("STRINGS" :> StringFileOf("STRINGS", (1 :> <<79>>)))] }

\* the translation lists a caller may hand over, made from the extracted
\* units. A unit comes back as extracted (its own text is applied), with an
\* empty replacement, with the text of the next unit as replacement (for two
\* units: swapped), or with that replacement under the next index (the key
\* of the next routed subrecord, or of none)
NextUnit(units, i) == units[(i % Len(units)) + 1]

EditedUnits(units) ==
    UNION { { units[i],
              [units[i] EXCEPT !.translated_text = Some(<<>>)],
              [units[i] EXCEPT !.translated_text =
                                   Some(NextUnit(units, i).original_text)],
              [units[i] EXCEPT !.index = Some(units[i].index[1] + 1),
                               !.translated_text =
                                   Some(NextUnit(units, i).original_text)] } :
            i \in 1..Len(units) }

RECURSIVE ListsOfLen(_, _)
ListsOfLen(S, n) ==
    IF n = 0 THEN { <<>> }
    ELSE { <<x>> \o l : x \in S, l \in ListsOfLen(S, n - 1) }

TranslationLists(units) ==
    UNION { ListsOfLen(EditedUnits(units), n) : n \in 0..MaxTranslations }

PlInit ==
    /\ pl_file \in PluginFiles
    /\ \E loaded \in {load(pl_file.name, pl_file.data)} :
          loaded.ok /\ pl_plugin = loaded.plugin
    /\ pl_result = [op |-> "load"]
    /\ SfIdle
    /\ RecIdle
    /\ RtIdle
    /\ EdIdle
    /\ PgIdle
    /\ CxIdle

\* Plugin::set_string_files, as LocalizedPluginContext does for a localized
\* plugin after loading its tables
SetStringFiles ==
    /\ is_localized(pl_plugin)
    /\ pl_plugin.string_files = None
    /\ \E set \in StringFileSets :
         /\ pl_plugin' = set_string_files(pl_plugin, set)
         /\ pl_result' = [op |-> "set_string_files"]
    /\ UNCHANGED <<pl_file, sfvars, recvars, rtvars, edvars, pgvars, cxvars>>

\* Plugin::extract_strings
ExtractStrings ==
    /\ pl_result' = [op |-> "extract_strings", strings |-> extract_strings(pl_plugin)]
    /\ UNCHANGED <<pl_file, pl_plugin, sfvars, recvars, rtvars, edvars, pgvars, cxvars>>

\* Plugin::apply_translations_unified; the list is consumed by the call, and
\* what remains of the call is its return value, what it printed and what it
\* wrote
ApplyTranslations ==
    /\ \E translations \in TranslationLists(extract_strings(pl_plugin)) :
        \E r \in {apply_translations_unified(pl_plugin, translations)} :
         /\ pl_plugin' = r.plugin
         /\ pl_result' = [op |-> "apply_translations",
                          given |-> Len(translations),
                          ok |-> r.ok,
                          applied_count |-> IF r.ok THEN r.applied_count ELSE 0,
                          warning |-> ~is_localized(pl_plugin) /\ r.warning,
                          output |-> IF r.ok /\ ~is_localized(pl_plugin)
                                     THEN Some(r.output) ELSE None,
                          written |-> IF r.ok /\ is_localized(pl_plugin)
                                      THEN Some(r.written) ELSE None]
    /\ UNCHANGED <<pl_file, sfvars, recvars, rtvars, edvars, pgvars, cxvars>>

\* Plugin::eslify_formids
EslifyFormids ==
    /\ \E r \in {eslify_formids(pl_plugin)} :
         /\ pl_plugin' = r.plugin
         /\ pl_result' = [op |-> "eslify_formids", ok |-> r.ok]
    /\ UNCHANGED <<pl_file, sfvars, recvars, rtvars, edvars, pgvars, cxvars>>

\* Plugin::write_to_file
WriteToFile ==
    /\ pl_result' = [op |-> "write_to_file", ok |-> TRUE,
                     output |-> Some(write_to_file(pl_plugin))]
    /\ UNCHANGED <<pl_file, pl_plugin, sfvars, recvars, rtvars, edvars, pgvars, cxvars>>

PlNext ==
    \/ SetStringFiles
    \/ ExtractStrings
    \/ ApplyTranslations
    \/ EslifyFormids
    \/ WriteToFile

SpecPlugin == PlInit /\ [][PlNext]_vars

(***************************************************************************)
(* Claims about a loaded plugin                                            *)
(***************************************************************************)
\* the records below a list of children, in file order (groups depth first)
RECURSIVE RecordsOfChildren(_)
RecordsOfChildren(children) ==
    IF children = <<>> THEN <<>>
    ELSE (IF Head(children).kind = "Group"
          THEN RecordsOfChildren(Head(children).group.children)
          ELSE <<Head(children).record>>)
           \o RecordsOfChildren(Tail(children))

\* the records of the groups of a plugin, in file order
RecordsOf(p) ==
    Flatten([k \in 1..Len(p.groups) |-> RecordsOfChildren(p.groups[k].children)])

\* subrecord k of the record is routed: its type is listed for the record type
IsRouted(record, k) ==
    LET types == get_string_subrecord_types(record.record_type) IN
    types # None /\ vec_contains(types[1], record.subrecords[k].record_type)

\* the number of routed subrecords of the record before subrecord k
Rank(record, k) == Cardinality({ j \in 1..(k - 1) : IsRouted(record, j) })

\* the FormID string of a record of the plugin
FormIdStr(p, record) == format_form_id_helper(record.form_id, p.masters, p.name)

\* the unit subrecord k of the record yields when it is given its rank as
\* index: Some(unit) or None
UnitAtRank(p, record, k) ==
    extract_string_from_subrecord_with_index(p, record.subrecords[k],
        get_editor_id(record), FormIdStr(p, record), record.record_type,
        Rank(record, k))

\* the units of the plugin when every routed subrecord is given its rank
UnitsByRank(p) ==
    LET records == RecordsOf(p) IN
    Flatten([i \in 1..Len(records) |->
        Flatten([k \in 1..Len(records[i].subrecords) |->
            IF IsRouted(records[i], k) THEN UnitAtRank(p, records[i], k)
            ELSE <<>>])])

HoldsStringIdZero(record, k) ==
    /\ read_u32(record.subrecords[k].data, 0).ok
    /\ read_u32(record.subrecords[k].data, 0).val = 0

\* C7: in a localized plugin a routed subrecord whose string id is 0 never
\* yields a unit, with or without string tables and whatever they hold.
C7_StringIdZeroYieldsNothing ==
    (pl_result.op = "extract_strings" /\ is_localized(pl_plugin)) =>
        \A i \in 1..Len(RecordsOf(pl_plugin)) :
           LET record == RecordsOf(pl_plugin)[i] IN
           \A k \in 1..Len(record.subrecords) :
              (IsRouted(record, k) /\ HoldsStringIdZero(record, k)) =>
                 ~\E u \in 1..Len(pl_result.strings) :
                     /\ pl_result.strings[u].form_id = FormIdStr(pl_plugin, record)
                     /\ pl_result.strings[u].index = Some(Rank(record, k))

\* extraction from a localized plugin whose tables hold a valid text under
\* id 0 has emitted units although a routed subrecord holds id 0
C7_Witness ==
    /\ pl_result.op = "extract_strings"
    /\ is_localized(pl_plugin)
    /\ pl_plugin.string_files # None
    /\ LET entry == get_string_by_type(pl_plugin.string_files[1], "STRINGS", 0) IN
         entry # None /\ is_valid_string(entry[1].content)
    /\ pl_result.strings # <<>>
    /\ \E i \in 1..Len(RecordsOf(pl_plugin)) :
         \E k \in 1..Len(RecordsOf(pl_plugin)[i].subrecords) :
            /\ IsRouted(RecordsOf(pl_plugin)[i], k)
            /\ HoldsStringIdZero(RecordsOf(pl_plugin)[i], k)

\* the serialized length of a child: a record takes what write_record emits
\* for it (24 bytes and its payload), a group 24 bytes and its children
RECURSIVE ChildrenLen(_)
ChildLen(child) ==
    IF child.kind = "Group" THEN 24 + ChildrenLen(child.group.children)
    ELSE Len(write_record(child.record, <<>>))

ChildrenLen(children) ==
    IF children = <<>> THEN 0
    ELSE ChildLen(Head(children)) + ChildrenLen(Tail(children))

\* in the written bytes, where the children lie from pos on, every group
\* (nested ones too) starts with "GRUP" and a size field that is 24 plus the
\* serialized lengths of its children
RECURSIVE GroupSizesFrom(_, _, _)
GroupSizesFrom(output, pos, children) ==
    IF children = <<>> THEN TRUE
    ELSE /\ Head(children).kind = "Group" =>
              /\ Slice(output, pos, pos + 4) = GRUP
              /\ read_u32(output, pos + 4).ok
              /\ read_u32(output, pos + 4).val
                     = 24 + ChildrenLen(Head(children).group.children)
              /\ GroupSizesFrom(output, pos + 24, Head(children).group.children)
         /\ GroupSizesFrom(output, pos + ChildLen(Head(children)), Tail(children))

\* the top-level groups of a plugin as children
TopLevel(p) == [k \in 1..Len(p.groups) |-> [kind |-> "Group", group |-> p.groups[k]]]

\* C6: in every written file (by write_to_file, or by applying translations
\* to a non-localized plugin), after any combination of applying and
\* renumbering, the size field of every group, nested or not, is 24 plus the
\* sum of the serialized lengths of its children.
C6_GroupSizeBackPatched ==
    ("output" \in DOMAIN pl_result /\ pl_result.output # None) =>
        LET output == pl_result.output[1]
            header_len == Len(write_record(pl_plugin.header, <<>>))
        IN  /\ GroupSizesFrom(output, header_len, TopLevel(pl_plugin))
            /\ Len(output) = header_len + ChildrenLen(TopLevel(pl_plugin))

\* a file has been written in which a group that holds a nested group has a
\* size other than the size it was parsed with
C6_Witness ==
    /\ pl_result.op = "write_to_file"
    /\ pl_plugin.groups # <<>>
    /\ \E k \in 1..Len(pl_plugin.groups[1].children) :
          pl_plugin.groups[1].children[k].kind = "Group"
    /\ read_u32(pl_result.output[1],
                Len(write_record(pl_plugin.header, <<>>)) + 4).val
           # pl_plugin.groups[1].size

\* the key under which subrecord k of the record is looked up: the editor id
\* (or nothing), the FormID string, "RTYPE STYPE" and the rank, "|"-separated
SubrecordKey(p, record, k) ==
    (IF get_editor_id(record) # None THEN get_editor_id(record)[1] ELSE <<>>)
      \o <<124>> \o FormIdStr(p, record)
      \o <<124>> \o record.record_type \o <<32>> \o record.subrecords[k].record_type
      \o <<124>> \o Decimal(Rank(record, k))

\* the keys of all routed subrecords of the plugin
RoutedKeys(p) ==
    UNION { { SubrecordKey(p, RecordsOf(p)[i], k) :
                k \in { k \in 1..Len(RecordsOf(p)[i].subrecords) :
                          IsRouted(RecordsOf(p)[i], k) } } :
            i \in 1..Len(RecordsOf(p)) }

\* the keys of a translation list
ListKeys(translations) ==
    { get_unique_key(translations[n]) : n \in 1..Len(translations) }

\* the units of the list whose key is the key of a routed subrecord
RECURSIVE MatchingUnits(_, _)
MatchingUnits(translations, keys) ==
    IF translations = <<>> THEN <<>>
    ELSE (IF get_unique_key(Head(translations)) \in keys
          THEN <<Head(translations)>> ELSE <<>>)
           \o MatchingUnits(Tail(translations), keys)

\* the translation lists a caller may hand over in the current state
ListsNow == TranslationLists(extract_strings(pl_plugin))

\* C4: applying a translation list to a non-localized plugin succeeds even
\* when a key matches no routed subrecord; such a key changes nothing (the
\* result is that of the list without it); when no key matches, every
\* payload, size and modified flag is unchanged and the file written equals
\* the file written before; applying nothing is a printed warning, not an
\* error.
C4_UnmatchedKeysChangeNothing ==
    /\ (pl_result.op = "apply_translations" /\ ~is_localized(pl_plugin)) =>
          /\ pl_result.ok
          /\ pl_result.warning = (pl_result.applied_count = 0)
    /\ ~is_localized(pl_plugin) =>
          \A keys \in {RoutedKeys(pl_plugin)} :
          \A translations \in ListsNow :
          \A matching \in {MatchingUnits(translations, keys)} :
          \A r \in {apply_translations_unified(pl_plugin, translations)} :
          \A m \in {apply_translations_unified(pl_plugin, matching)} :
                 /\ r.ok
                 /\ r.warning = (r.applied_count = 0)
                 /\ r.plugin = m.plugin
                 /\ r.output = m.output
                 /\ r.applied_count = m.applied_count
                 /\ matching = <<>> =>
                       /\ r.plugin = pl_plugin
                       /\ r.output = write_to_file(pl_plugin)
                       /\ r.applied_count = 0

\* a non-empty list none of whose keys matches has been applied: the call
\* succeeded with a warning and wrote the file that would have been written
\* before
C4_Witness ==
    /\ pl_result.op = "apply_translations"
    /\ ~is_localized(pl_plugin)
    /\ pl_result.ok
    /\ pl_result.warning
    /\ pl_result.given > 0
    /\ \E translations \in ListsNow :
          /\ Len(translations) = pl_result.given
          /\ ListKeys(translations) \cap RoutedKeys(pl_plugin) = {}
          /\ apply_translations_unified(pl_plugin, translations).plugin = pl_plugin
          /\ pl_result.output = Some(write_to_file(pl_plugin))

\* the list holds a replacement with non-empty text for the key: the last
\* unit with the key counts
HasText(translations, key) ==
    \E n \in 1..Len(translations) :
       /\ get_unique_key(translations[n]) = key
       /\ \A m \in (n + 1)..Len(translations) : get_unique_key(translations[m]) # key
       /\ get_text_to_apply(translations[n]) # <<>>

\* subrecord k of the record is routed and the list holds a non-empty text
\* for its key
Hit(p, translations, record, k) ==
    IsRouted(record, k) /\ HasText(translations, SubrecordKey(p, record, k))

\* the records of a file in file order, each as its bytes: "GRUP" opens a
\* group whose children follow its 24 header bytes, anything else is a record
\* of 24 bytes and the payload its size field counts
RECURSIVE RecordSpans(_, _)
RecordSpans(data, pos) ==
    IF pos + 24 > Len(data) THEN <<>>
    ELSE IF Slice(data, pos, pos + 4) = GRUP THEN RecordSpans(data, pos + 24)
    ELSE LET n == 24 + read_u32(data, pos + 4).val IN
         <<Slice(data, pos, pos + n)>> \o RecordSpans(data, pos + n)

\* C5: applying a translation list to a non-localized plugin marks a record
\* modified exactly when one of its routed subrecords has a matching key with
\* non-empty text (a record marked before stays marked); every other record
\* and subrecord keeps its payload, size and flag; and in every written file
\* each record not marked modified has exactly the bytes it was loaded from.
C5_ModifiedIffApplied ==
    /\ ("output" \in DOMAIN pl_result /\ pl_result.output # None) =>
          \A written \in {RecordSpans(pl_result.output[1], 0)} :
          \A loaded \in {RecordSpans(pl_file.data, 0)} :
          \A records \in {<<pl_plugin.header>> \o RecordsOf(pl_plugin)} :
              /\ Len(written) = Len(records)
              /\ Len(loaded) = Len(records)
              /\ \A i \in 1..Len(records) :
                    ~records[i].is_modified => written[i] = loaded[i]
    /\ ~is_localized(pl_plugin) =>
          \A old \in {RecordsOf(pl_plugin)} :
          \A translations \in ListsNow :
          \A r \in {apply_translations_unified(pl_plugin, translations)} :
          \A new \in {RecordsOf(r.plugin)} :
                 /\ Len(new) = Len(old)
                 /\ r.plugin.header = pl_plugin.header
                 /\ \A i \in 1..Len(old) :
                     \A hits \in { { k \in 1..Len(old[i].subrecords) :
                                       Hit(pl_plugin, translations, old[i], k) } } :
                           /\ new[i].is_modified = (old[i].is_modified \/ hits # {})
                           /\ Len(new[i].subrecords) = Len(old[i].subrecords)
                           /\ \A k \in 1..Len(old[i].subrecords) :
                                 k \notin hits =>
                                    new[i].subrecords[k] = old[i].subrecords[k]
                           /\ hits = {} => new[i] = old[i]
                           /\ [new[i] EXCEPT !.subrecords = old[i].subrecords,
                                             !.is_modified = old[i].is_modified]
                                 = old[i]

\* translations have been applied and written: a record that got a text is
\* marked, a record that got none is not, and the file holds the unmarked
\* record with the bytes it was loaded from although its neighbour changed
C5_Witness ==
    /\ pl_result.op = "apply_translations"
    /\ ~is_localized(pl_plugin)
    /\ pl_result.applied_count > 0
    /\ \E i, j \in 1..Len(RecordsOf(pl_plugin)) :
          /\ RecordsOf(pl_plugin)[i].is_modified
          /\ ~RecordsOf(pl_plugin)[j].is_modified
          /\ get_string_subrecord_types(RecordsOf(pl_plugin)[j].record_type) # None
          /\ RecordSpans(pl_result.output[1], 0)[i + 1]
                # RecordSpans(pl_file.data, 0)[i + 1]
          /\ RecordSpans(pl_result.output[1], 0)[j + 1]
                = RecordSpans(pl_file.data, 0)[j + 1]

\* C3: in a non-localized plugin, a record with exactly two routed subrecords
\* of the same type and valid texts A and B yields two units with indices 0
\* and 1; applying them with the replacement texts swapped leaves the
\* payloads B+NUL and A+NUL, and extracting again yields B at index 0 and A at
\* index 1.
C3_SwapReextracts ==
    ~is_localized(pl_plugin) =>
       \A i \in 1..Len(RecordsOf(pl_plugin)) :
          LET record == RecordsOf(pl_plugin)[i]
              routed == { k \in 1..Len(record.subrecords) : IsRouted(record, k) }
          IN  \A k1, k2 \in routed :
                 ( /\ routed = {k1, k2}
                   /\ k1 < k2
                   /\ record.subrecords[k1].record_type = record.subrecords[k2].record_type
                   /\ UnitAtRank(pl_plugin, record, k1) # None
                   /\ UnitAtRank(pl_plugin, record, k2) # None ) =>
                 LET first == UnitAtRank(pl_plugin, record, k1)[1]
                     second == UnitAtRank(pl_plugin, record, k2)[1]
                     A == first.original_text
                     B == second.original_text
                     swapped == << [first EXCEPT !.translated_text = Some(B)],
                                   [second EXCEPT !.translated_text = Some(A)] >>
                     r == apply_translations_unified(pl_plugin, swapped)
                     applied == RecordsOf(r.plugin)[i]
                     again == extract_record_strings(r.plugin, applied)
                 IN  /\ first.index = Some(0)
                     /\ second.index = Some(1)
                     /\ extract_record_strings(pl_plugin, record) = <<first, second>>
                     /\ r.ok
                     /\ applied.subrecords[k1].data = B \o <<0>>
                     /\ applied.subrecords[k2].data = A \o <<0>>
                     /\ Len(again) = 2
                     /\ again[1].original_text = B /\ again[1].index = Some(0)
                     /\ again[2].original_text = A /\ again[2].index = Some(1)

(***************************************************************************)
(* Light-plugin renumbering near the limit                                 *)
(***************************************************************************)
\* the number of records the documentation of eslify_formids gives as the
\* most a light plugin supports
EslLimit == 2048

\* how far above the limit the number of self-owned records is drawn
MaxOver == 1

\* the result of Record::parse on a record without subrecords
EslRecord(form_id) ==
    Record_parse(RecordBytes(MISC, 0, form_id, <<>>), 0)

\* n records of the owner byte `owner`, numbered from `base + from` upwards,
\* as children of a group
EslChildren(owner, base, from, n) ==
    [i \in 1..n |->
        GroupChild_Record(EslRecord(owner * 16777216 + base + from + i)).child]

\* where the FormIDs of a plugin start: within the low 12 bits, or with bits
\* set above them
EslBases == {0, 20480}

\* the result of Group::parse on a group of type 0 with these children
EslGroup(children) ==
    [ok |-> TRUE, pos |-> 0, group |->
    [size |-> 24 + 24 * Len(children),
     label |-> MISC,
     group_type |-> GroupType_from(0),
     timestamp |-> 2057,
     version_control_info |-> 2571,
     unknown |-> 3085,
     children |-> children]]

\* the records laid out as one group, as two top-level groups, or with the
\* records after the first in a nested group
EslShapes == {"one", "two", "nested"}

EslGroups(shape, children) ==
    IF shape = "one" \/ Len(children) < 2 THEN << EslGroup(children).group >>
    ELSE IF shape = "two"
    THEN << EslGroup(SubSeq(children, 1, 1)).group,
            EslGroup(SubSeq(children, 2, Len(children))).group >>
    ELSE << [EslGroup(<< children[1],
                         GroupChild_Group(EslGroup(SubSeq(children, 2, Len(children)))).child >>).group
               EXCEPT !.size = 24 + 24 + 24 + 24 * (Len(children) - 1)] >>

\* the numbers of self-owned records drawn: few, and around the limit
EslOwnCounts == {1, 2} \cup ((EslLimit - 2)..(EslLimit + MaxOver))

\* a loaded plugin with `masters`, `before` records of the first master,
\* then `own` records of the plugin itself, then `after` records of the
\* first master
EslPlugin(masters, shape, base, before, own, after) ==
    [name |-> PluginName,
     header |-> EslRecord(0).record,
     groups |-> EslGroups(shape,
                    EslChildren(0, base, 0, before)
                 \o EslChildren(Len(masters), base, before, own)
                 \o EslChildren(0, base, before + own, after)),
     masters |-> masters,
     string_files |-> None]

EslInit ==
    /\ \E masters \in {<<>>, <<MasterName>>}, shape \in EslShapes, base \in EslBases,
          own \in EslOwnCounts, before \in 0..1, after \in 0..1 :
          /\ (masters = <<>>) => (before = 0 /\ after = 0)
          /\ pl_file = [name |-> PluginName, masters |-> Len(masters),
                        shape |-> shape, base |-> base,
                        records |-> <<before, own, after>>]
          /\ pl_plugin = EslPlugin(masters, shape, base, before, own, after)
    /\ pl_result = [op |-> "load"]
    /\ SfIdle
    /\ RecIdle
    /\ RtIdle
    /\ EdIdle
    /\ PgIdle
    /\ CxIdle

EslNext == EslifyFormids

SpecEsl == EslInit /\ [][EslNext]_vars

(***************************************************************************)
(* Claims about light-plugin renumbering                                   *)
(***************************************************************************)
\* the number of records below `children` whose top FormID byte is not the
\* index of a master
RECURSIVE OwnCountOfChildren(_, _)
RECURSIVE OwnCountOfGroups(_, _, _)
OwnCountOfGroups(children, masters, at) ==
    IF at = {} THEN 0
    ELSE LET i == CHOOSE j \in at : TRUE IN
         OwnCountOfChildren(children[i].group.children, masters)
           + OwnCountOfGroups(children, masters, at \ {i})

OwnCountOfChildren(children, masters) ==
    Cardinality({ i \in DOMAIN children :
                    /\ children[i].kind = "Record"
                    /\ children[i].record.form_id \div 16777216 >= Len(masters) })
      + OwnCountOfGroups(children, masters,
                         { i \in DOMAIN children : children[i].kind = "Group" })

OwnCount(p) ==
    OwnCountOfChildren([i \in DOMAIN p.groups |-> [kind |-> "Group", group |-> p.groups[i]]],
                       p.masters)

\* C11: when eslify_formids returns the limit error, no FormID and no
\* modified flag has been changed: the plugin after the failed call is the
\* plugin before it
C11_FailedCallChangesNothing ==
    [][ (pl_result'.op = "eslify_formids" /\ ~pl_result'.ok)
           => pl_plugin' = pl_plugin ]_vars

\* C12: eslify_formids returns Ok when the plugin has at most 2048
\* self-owned records and an error exactly when it has more; records of a
\* master do not count
C12_OkUpToLimit ==
    pl_result.op = "eslify_formids" =>
       (pl_result.ok <=> OwnCount(pl_plugin) <= EslLimit)

\* what the loop does: the error is returned as soon as the counter has
\* passed 0xFFF, that is once the 2048th self-owned record has been
\* renumbered; records of a master do not count
EslifyOkBelowLimit ==
    pl_result.op = "eslify_formids" =>
       (pl_result.ok <=> OwnCount(pl_plugin) < EslLimit)

(***************************************************************************)
(* Claims about string ids that resolve to no text                         *)
(***************************************************************************)
\* subrecord k of the record holds a non-zero string id that the plugin
\* cannot resolve: no tables are loaded, or the table of its kind is absent
\* or lacks the id
MissesStringId(p, record, k) ==
    LET id == read_u32(record.subrecords[k].data, 0) IN
    /\ id.ok
    /\ id.val # 0
    /\ \/ p.string_files = None
       \/ get_string_by_type(p.string_files[1],
              determine_string_file_type(record.record_type,
                                         record.subrecords[k].record_type),
              id.val) = None

\* C13: in a localized plugin a routed subrecord whose non-zero string id is
\* not resolved yields a unit whose text is a placeholder naming the id; the
\* subrecord is not dropped
C13_MissYieldsPlaceholder ==
    (pl_result.op = "extract_strings" /\ is_localized(pl_plugin)) =>
        \A i \in 1..Len(RecordsOf(pl_plugin)) :
           LET record == RecordsOf(pl_plugin)[i] IN
           \A k \in 1..Len(record.subrecords) :
              (IsRouted(record, k) /\ MissesStringId(pl_plugin, record, k)) =>
                 \E u \in 1..Len(pl_result.strings) :
                     /\ pl_result.strings[u].form_id = FormIdStr(pl_plugin, record)
                     /\ pl_result.strings[u].index = Some(Rank(record, k))
                     /\ contains(pl_result.strings[u].original_text,
                                 Decimal(read_u32(record.subrecords[k].data, 0).val))

\* what extraction does with an unresolved id: the placeholder is built and
\* then rejected by is_valid_string (it holds '_' and no space), so the
\* subrecord yields no unit
MissYieldsNothing ==
    (pl_result.op = "extract_strings" /\ is_localized(pl_plugin)) =>
        \A i \in 1..Len(RecordsOf(pl_plugin)) :
           LET record == RecordsOf(pl_plugin)[i] IN
           \A k \in 1..Len(record.subrecords) :
              (IsRouted(record, k) /\ MissesStringId(pl_plugin, record, k)) =>
                 ~\E u \in 1..Len(pl_result.strings) :
                     /\ pl_result.strings[u].form_id = FormIdStr(pl_plugin, record)
                     /\ pl_result.strings[u].index = Some(Rank(record, k))

(***************************************************************************)
(* The choice of a string table                                            *)
(***************************************************************************)
\* "info", "desc", "cnam", "INF", "DES", "INFOX", "NAM1"
InfoLower == <<105, 110, 102, 111>>
DescLower == <<100, 101, 115, 99>>
CnamLower == <<99, 110, 97, 109>>
InfoShort == <<73, 78, 70>>
DescShort == <<68, 69, 83>>
InfoLong == <<73, 78, 70, 79, 88>>
NAM1 == <<78, 65, 77, 49>>

\* the record types and subrecord types handed to
\* determine_string_file_type: those the rules name, others, and strings
\* that differ from a named one in case or length
RouteRecordTypes ==
    {INFO, WEAP, ARMO, NPC_, MISC, DESC, CNAM, InfoLower, InfoShort, InfoLong, <<>>}

RouteSubrecordTypes ==
    {FULL, DESC, CNAM, SHRT, EDID, NAM1, INFO, DescLower, CnamLower, DescShort, <<>>}

RtInit ==
    /\ route_args \in [record_type : RouteRecordTypes,
                       subrecord_type : RouteSubrecordTypes]
    /\ route_type = None
    /\ SfIdle
    /\ RecIdle
    /\ PlIdle
    /\ EdIdle
    /\ PgIdle
    /\ CxIdle

\* Plugin::determine_string_file_type
DetermineStringFileType ==
    /\ route_type = None
    /\ route_type' = Some(determine_string_file_type(route_args.record_type,
                                                     route_args.subrecord_type))
    /\ UNCHANGED <<route_args, sfvars, recvars, plvars, edvars, pgvars, cxvars>>

RtNext == DetermineStringFileType

SpecRoute == RtInit /\ [][RtNext]_vars

HoldsPayload(data, payload) ==
    /\ ~HasFlag(read_u32(data, 8).val, COMPRESSED)
    /\ read_u32(data, 4).val = Len(payload)
    /\ 24 + Len(payload) <= Len(data)
    /\ Slice(data, 24, 24 + Len(payload)) = payload

\* C15: a payload of well-formed subrecords followed by k trailing bytes,
\* 1 <= k <= 7: when the trailing bytes are all zero the parse succeeds and
\* returns exactly the well-formed subrecords; when fewer than 6 bytes
\* remain and one of them is not zero the parse fails
C15_PaddingUpToSeven ==
    rec_parsed # None =>
       \A w \in WellFormedPayloads : \A k \in 1..7 : \A t \in PaddingOfLen(k) :
          HoldsPayload(rec_data, w.bytes \o t) =>
             /\ (t = Zeros(k)) =>
                   /\ rec_parsed[1].ok
                   /\ rec_parsed[1].record.subrecords = w.subrecords
             /\ (k < 6 /\ t # Zeros(k)) => ~rec_parsed[1].ok

\* what parse_subrecords does: up to 5 trailing bytes are padding when all
\* zero and an error otherwise; 6 or 7 trailing zero bytes are first read as
\* a subrecord of type 00 00 00 00 and size 0, which is appended to the
\* subrecords, and the byte left of 7 is padding
PaddingBelowHeaderSize ==
    rec_parsed # None =>
       \A w \in WellFormedPayloads : \A k \in 1..7 : \A t \in PaddingOfLen(k) :
          HoldsPayload(rec_data, w.bytes \o t) =>
             /\ (k < 6 /\ t = Zeros(k)) =>
                   /\ rec_parsed[1].ok
                   /\ rec_parsed[1].record.subrecords = w.subrecords
             /\ (k < 6 /\ t # Zeros(k)) => ~rec_parsed[1].ok
             /\ (k >= 6 /\ t = Zeros(k)) =>
                   /\ rec_parsed[1].ok
                   /\ rec_parsed[1].record.subrecords =
                         Append(w.subrecords,
                                [record_type_bytes |-> Zeros(4),
                                 record_type |-> from_utf8_lossy(Zeros(4)),
                                 size |-> 0, data |-> <<>>])

(***************************************************************************)
(* Claims about the edits of a string table (under SpecStrings)            *)
(***************************************************************************)
\* the entries whose id is not `id` are the same in both tables
SameButFor(old, new, id) ==
    /\ new.file_type = old.file_type
    /\ DOMAIN new.entries \ {id} = DOMAIN old.entries \ {id}
    /\ \A other \in DOMAIN old.entries \ {id} : new.entries[other] = old.entries[other]

\* C16: update_string on an absent id is an error and leaves the table
\* unchanged; add_string on a present id is an error and leaves the table,
\* and so the existing entry, unchanged; remove_string returns the removed
\* entry when the id is present and nothing otherwise; a successful call
\* changes only the entry with the given id
C16_EditsOneEntry ==
    [][ /\ (sf_result'.op = "update_string") =>
              /\ sf_result'.ok <=> (sf_result'.id \in DOMAIN sf.entries)
              /\ ~sf_result'.ok => sf' = sf
              /\ sf_result'.ok =>
                    /\ SameButFor(sf, sf', sf_result'.id)
                    /\ sf_result'.id \in DOMAIN sf'.entries
        /\ (sf_result'.op = "add_string") =>
              /\ sf_result'.ok <=> (sf_result'.id \notin DOMAIN sf.entries)
              /\ ~sf_result'.ok => sf' = sf
              /\ sf_result'.ok =>
                    /\ SameButFor(sf, sf', sf_result'.id)
                    /\ sf_result'.id \in DOMAIN sf'.entries
        /\ (sf_result'.op = "remove_string") =>
              /\ (sf_result'.id \in DOMAIN sf.entries) =>
                    sf_result'.removed = Some(sf.entries[sf_result'.id])
              /\ (sf_result'.id \notin DOMAIN sf.entries) =>
                    /\ sf_result'.removed = None
                    /\ sf' = sf
              /\ SameButFor(sf, sf', sf_result'.id)
              /\ sf_result'.id \notin DOMAIN sf'.entries
      ]_vars

\* add_string on an id that is present has failed, and the table still
\* holds the entry with its text
C16_Witness ==
    /\ sf_result.op = "add_string"
    /\ ~sf_result.ok
    /\ sf_result.id \in DOMAIN sf.entries
    /\ sf.entries[sf_result.id].content # <<>>

(***************************************************************************)
(* TranslationDelta: the change log of the editor with its undo and redo   *)
(* stacks. The stacks hold 0-based indices into `changes`.                 *)
(***************************************************************************)
\* most changes ever added to one TranslationDelta
MaxChanges == 3

\* TranslationDelta::new
TranslationDelta_new ==
    [changes |-> <<>>, undo_stack |-> <<>>, redo_stack |-> <<>>]

\* a mutant of add_change: the redo stack is kept
add_change_keeping_redo(delta, change) ==
    [delta EXCEPT !.changes = Append(@, change),
                  !.undo_stack = Append(@, Len(delta.changes))]

\* TranslationDelta::add_change
add_change(delta, change) ==
    [changes |-> Append(delta.changes, change),
     undo_stack |-> Append(delta.undo_stack, Len(delta.changes)),
     redo_stack |-> <<>>]

\* Vec::pop: [popped, rest]
pop(stack) ==
    IF stack = <<>> THEN [popped |-> None, rest |-> stack]
    ELSE [popped |-> Some(stack[Len(stack)]),
          rest |-> SubSeq(stack, 1, Len(stack) - 1)]

\* a mutant of undo: the index popped is not pushed on the redo stack
undo_forgetting(delta) ==
    LET p == pop(delta.undo_stack) IN
    IF p.popped = None THEN [ok |-> FALSE, change |-> None, delta |-> delta]
    ELSE [ok |-> TRUE,
          change |-> Some(delta.changes[p.popped[1] + 1]),
          delta |-> [delta EXCEPT !.undo_stack = p.rest]]

\* TranslationDelta::undo: [ok, change, delta]
undo(delta) ==
    LET p == pop(delta.undo_stack) IN
    IF p.popped = None THEN [ok |-> FALSE, change |-> None, delta |-> delta]
    ELSE [ok |-> TRUE,
          change |-> Some(delta.changes[p.popped[1] + 1]),
          delta |-> [delta EXCEPT !.undo_stack = p.rest,
                                  !.redo_stack = Append(@, p.popped[1])]]

\* TranslationDelta::redo: [ok, change, delta]
redo(delta) ==
    LET p == pop(delta.redo_stack) IN
    IF p.popped = None THEN [ok |-> FALSE, change |-> None, delta |-> delta]
    ELSE [ok |-> TRUE,
          change |-> Some(delta.changes[p.popped[1] + 1]),
          delta |-> [delta EXCEPT !.redo_stack = p.rest,
                                  !.undo_stack = Append(@, p.popped[1])]]

\* TranslationDelta::len, is_empty, can_undo, can_redo
delta_len(delta) == Len(delta.undo_stack)
delta_is_empty(delta) == delta.undo_stack = <<>>
can_undo(delta) == delta.undo_stack # <<>>
can_redo(delta) == delta.redo_stack # <<>>

\* TranslationDelta::iter, collected
delta_iter(delta) ==
    [k \in 1..Len(delta.undo_stack) |-> delta.changes[delta.undo_stack[k] + 1]]

\* TranslationDelta::clear
delta_clear(delta) == TranslationDelta_new

\* the changes a caller records: two fields of two records, with the time
\* they were made
RecordChanges ==
    { [record_id |-> [form_id |-> f, editor_id |-> None],
       subrecord_type |-> FULL,
       old_value |-> <<111>>,
       new_value |-> <<110>>,
       applied_at |-> f] : f \in 1..2 }

DeltaInit ==
    /\ ed_delta = TranslationDelta_new
    /\ ed_result = [op |-> "new"]
    /\ SfIdle
    /\ RecIdle
    /\ PlIdle
    /\ RtIdle
    /\ PgIdle
    /\ CxIdle

\* TranslationDelta::add_change
AddChange ==
    /\ Len(ed_delta.changes) < MaxChanges
    /\ \E change \in RecordChanges :
         /\ ed_delta' = add_change(ed_delta, change)
         /\ ed_result' = [op |-> "add_change", change |-> Some(change),
                          before |-> delta_iter(ed_delta),
                          could_redo |-> can_redo(ed_delta)]
    /\ UNCHANGED <<sfvars, recvars, plvars, rtvars, pgvars, cxvars>>

\* TranslationDelta::undo
Undo ==
    /\ \E r \in {undo(ed_delta)} :
         /\ ed_delta' = r.delta
         /\ ed_result' = [op |-> "undo", ok |-> r.ok, change |-> r.change,
                          before |-> delta_iter(ed_delta)]
    /\ UNCHANGED <<sfvars, recvars, plvars, rtvars, pgvars, cxvars>>

\* TranslationDelta::redo
Redo ==
    /\ \E r \in {redo(ed_delta)} :
         /\ ed_delta' = r.delta
         /\ ed_result' = [op |-> "redo", ok |-> r.ok, change |-> r.change,
                          before |-> delta_iter(ed_delta)]
    /\ UNCHANGED <<sfvars, recvars, plvars, rtvars, pgvars, cxvars>>

\* TranslationDelta::clear
Clear ==
    /\ ed_delta' = delta_clear(ed_delta)
    /\ ed_result' = [op |-> "clear"]
    /\ UNCHANGED <<sfvars, recvars, plvars, rtvars, pgvars, cxvars>>

DeltaNext ==
    \/ AddChange
    \/ Undo
    \/ Redo
    \/ Clear

SpecDelta == DeltaInit /\ [][DeltaNext]_vars

\* C17: after add_change the redo stack is empty, whatever add_change, undo
\* and redo came before, and the added change is the last effective change
\* iter() returns
C17_AddClearsRedo ==
    ed_result.op = "add_change" =>
       /\ ~can_redo(ed_delta)
       /\ delta_iter(ed_delta) = Append(ed_result.before, ed_result.change[1])

\* a change has been added while changes were undone and could be redone
C17_Witness ==
    /\ ed_result.op = "add_change"
    /\ ed_result.could_redo
    /\ ed_result.before # <<>>

\* C18: undo returns the last effective change and takes it off the
\* effective changes; redo returns the change undone last and puts it back
\* as the last effective change; undo directly followed by redo restores the
\* effective changes; undo with no effective change and redo with nothing
\* undone are errors that leave the delta unchanged
C18_UndoRedo ==
    [][ /\ (ed_result'.op = "undo" /\ ed_result'.before # <<>>) =>
              /\ ed_result'.ok
              /\ ed_result'.change = Some(ed_result'.before[Len(ed_result'.before)])
              /\ delta_len(ed_delta') = delta_len(ed_delta) - 1
              /\ delta_iter(ed_delta') =
                    SubSeq(ed_result'.before, 1, Len(ed_result'.before) - 1)
        /\ (ed_result'.op = "undo" /\ ed_result'.before = <<>>) =>
              /\ ~ed_result'.ok
              /\ ed_delta' = ed_delta
        /\ (ed_result'.op = "redo" /\ can_redo(ed_delta)) =>
              /\ ed_result'.ok
              /\ delta_len(ed_delta') = delta_len(ed_delta) + 1
              /\ delta_iter(ed_delta') = Append(ed_result'.before, ed_result'.change[1])
        /\ (ed_result'.op = "redo" /\ ~can_redo(ed_delta)) =>
              /\ ~ed_result'.ok
              /\ ed_delta' = ed_delta
        /\ (ed_result.op = "undo" /\ ed_result.ok /\ ed_result'.op = "redo") =>
              /\ ed_result'.ok
              /\ ed_result'.change = ed_result.change
              /\ delta_iter(ed_delta') = ed_result.before
              /\ ed_delta'.redo_stack = SubSeq(ed_delta.redo_stack, 1,
                                               Len(ed_delta.redo_stack) - 1)
      ]_vars

\* two changes were undone one after the other and the one undone last has
\* been redone
C18_Witness ==
    /\ ed_result.op = "redo"
    /\ ed_result.ok
    /\ can_redo(ed_delta)
    /\ ed_result.before # <<>>
    /\ ed_result.change[1] # ed_delta.changes[ed_delta.redo_stack[1] + 1]

(***************************************************************************)
(* PluginEditor: a plugin (pl_plugin) with the TranslationDelta that       *)
(* tracks what was applied to it (ed_delta).                               *)
(***************************************************************************)
\* str::split(sep), collected
RECURSIVE split_from(_, _, _, _)
split_from(text, sep, k, part) ==
    IF k > Len(text) THEN << part >>
    ELSE IF text[k] = sep THEN << part >> \o split_from(text, sep, k + 1, <<>>)
    ELSE split_from(text, sep, k + 1, Append(part, text[k]))

split(text, sep) == split_from(text, sep, 1, <<>>)

\* char::to_digit(16): the value of a hexadecimal digit, or -1
to_digit_16(c) ==
    IF c \in 48..57 THEN c - 48
    ELSE IF c \in 65..70 THEN c - 55
    ELSE IF c \in 97..102 THEN c - 87
    ELSE -1

\* u32::from_str_radix(s, 16): Some(value) or None; one leading '+' is
\* accepted, an empty digit string is not
RECURSIVE hex_value(_, _)
hex_value(digits, acc) ==
    IF digits = <<>> THEN Some(acc)
    ELSE IF to_digit_16(Head(digits)) < 0 THEN None
    ELSE hex_value(Tail(digits), acc * 16 + to_digit_16(Head(digits)))

from_str_radix_16(s) ==
    LET digits == IF s # <<>> /\ Head(s) = 43 THEN Tail(s) ELSE s IN
    IF digits = <<>> THEN None ELSE hex_value(digits, 0)

\* PluginEditor::extract_form_id_from_key: Some(form id), or None when the
\* slice [..8] of a second part shorter than 8 bytes panics
extract_form_id_from_key(key) ==
    LET parts == split(key, 124) IN
    IF Len(parts) >= 2
    THEN IF Len(parts[2]) < 8 THEN None
         ELSE LET parsed == from_str_radix_16(SubSeq(parts[2], 1, 8)) IN
              Some(IF parsed # None THEN parsed[1] ELSE 0)
    ELSE Some(0)

\* the RecordChange apply_translations records for one entry of the map;
\* the clock is read as the number of changes recorded so far
RecordChange_of(key, trans, now) ==
    [record_id |-> [form_id |-> extract_form_id_from_key(key)[1],
                    editor_id |-> trans.editor_id],
     subrecord_type |-> get_string_type(trans),
     old_value |-> trans.original_text,
     new_value |-> IF trans.translated_text # None
                   THEN trans.translated_text[1] ELSE <<>>,
     applied_at |-> now]

\* the loop of apply_translations over translation_map.iter(), which visits
\* the entries in the order `order`: [panicked, delta]
RECURSIVE record_changes(_, _, _, _)
record_changes(delta, map, order, k) ==
    IF k > Len(order) THEN [panicked |-> FALSE, delta |-> delta]
    ELSE IF extract_form_id_from_key(order[k]) = None
    THEN [panicked |-> TRUE, delta |-> delta]
    ELSE record_changes(
             add_change(delta, RecordChange_of(order[k], map[order[k]],
                                               Len(delta.changes))),
             map, order, k + 1)

\* the orders in which a HashMap may hand out its keys
IterationOrders(map) ==
    { order \in [1..Cardinality(DOMAIN map) -> DOMAIN map] :
         \A i, j \in DOMAIN order : i # j => order[i] # order[j] }

\* the rest of apply_translations once the map has been applied to the
\* plugin: [panicked, returned, applied_count, plugin, delta]
editor_applied(delta, map, order, a) ==
    [returned |-> Cardinality(DOMAIN map),
     applied_count |-> a.applied_count,
     plugin |-> a.plugin,
     changes |-> record_changes(delta, map, order, 1)]

\* PluginEditor::apply_translations
editor_apply_translations(plugin, delta, map, order) ==
    editor_applied(delta, map, order, apply_translation_map(plugin, map))

\* PluginEditor::is_modified, modified_count
editor_is_modified(delta) == ~delta_is_empty(delta)
modified_count(delta) == delta_len(delta)

\* a file with one record that holds one routed subrecord
EditorFile ==
    RecordBytes(TES4, 0, 0, SubrecordBytes(DATA, <<1>>))
      \o GroupBytes(WEAP, 0,
           RecordBytes(WEAP, 0, 2049,
               SubrecordBytes(EDID, <<69, 0>>) \o SubrecordBytes(FULL, <<89, 0>>)))

\* PluginEditor::new on a plugin just loaded
EditInit ==
    /\ pl_file = [name |-> PluginName, data |-> EditorFile]
    /\ \E loaded \in {load(pl_file.name, pl_file.data)} :
          loaded.ok /\ pl_plugin = loaded.plugin
    /\ pl_result = [op |-> "load"]
    /\ ed_delta = TranslationDelta_new
    /\ ed_result = [op |-> "new"]
    /\ SfIdle
    /\ RecIdle
    /\ RtIdle
    /\ PgIdle
    /\ CxIdle

\* PluginEditor::apply_translations
EditorApplyTranslations ==
    /\ \E translations \in TranslationLists(extract_strings(pl_plugin)) :
       \E map \in {create_translation_map(translations)} :
         /\ Len(ed_delta.changes) + Cardinality(DOMAIN map) <= MaxChanges
         /\ \E order \in IterationOrders(map) :
            \E r \in {editor_apply_translations(pl_plugin, ed_delta, map, order)} :
              /\ pl_plugin' = r.plugin
              /\ ed_delta' = r.changes.delta
              /\ ed_result' = [op |-> "apply_translations",
                               ok |-> ~r.changes.panicked,
                               returned |-> r.returned,
                               applied_count |-> r.applied_count,
                               count_before |-> modified_count(ed_delta)]
    /\ UNCHANGED <<pl_file, pl_result, sfvars, recvars, rtvars, pgvars, cxvars>>

\* PluginEditor::apply_translation: apply_translations on the one
\* translation, and whether it returned more than 0
EditorApplyTranslation ==
    /\ Len(ed_delta.changes) < MaxChanges
    /\ \E translation \in EditedUnits(extract_strings(pl_plugin)) :
       \E map \in {create_translation_map(<< translation >>)} :
       \E order \in IterationOrders(map) :
       \E r \in {editor_apply_translations(pl_plugin, ed_delta, map, order)} :
              /\ pl_plugin' = r.plugin
              /\ ed_delta' = r.changes.delta
              /\ ed_result' = [op |-> "apply_translation",
                               ok |-> ~r.changes.panicked,
                               returned |-> r.returned > 0,
                               applied_count |-> r.applied_count,
                               count_before |-> modified_count(ed_delta)]
    /\ UNCHANGED <<pl_file, pl_result, sfvars, recvars, rtvars, pgvars, cxvars>>

\* PluginEditor::undo, redo and clear_modifications hand over to the
\* TranslationDelta and leave the plugin as it is
EditNext ==
    \/ EditorApplyTranslations
    \/ EditorApplyTranslation
    \/ Undo
    \/ Redo
    \/ Clear

SpecEditor == EditInit /\ [][EditNext]_vars

\* C19: apply_translations returns the number of translations that were
\* applied to a subrecord of the plugin, apply_translation returns true when
\* the translation was applied and false when no field matched, and
\* modified_count() and is_modified() reflect only applied translations
C19_ReturnsApplied ==
    /\ (ed_result.op = "apply_translations") =>
          /\ ed_result.ok
          /\ ed_result.returned = ed_result.applied_count
          /\ modified_count(ed_delta) = ed_result.count_before + ed_result.applied_count
    /\ (ed_result.op = "apply_translation") =>
          /\ ed_result.ok
          /\ ed_result.returned = (ed_result.applied_count > 0)
          /\ modified_count(ed_delta) = ed_result.count_before + ed_result.applied_count
    /\ (ed_result.op \in {"apply_translations", "apply_translation"}
          /\ ed_result.count_before = 0 /\ ed_result.applied_count = 0) =>
          ~editor_is_modified(ed_delta)

\* what the editor does: it returns, and records as changes, the number of
\* distinct keys it was given, whether or not they matched a subrecord
ReturnsGivenKeys ==
    /\ (ed_result.op = "apply_translations") =>
          /\ ed_result.ok
          /\ ed_result.returned >= ed_result.applied_count
          /\ modified_count(ed_delta) = ed_result.count_before + ed_result.returned
    /\ (ed_result.op = "apply_translation") =>
          /\ ed_result.ok
          /\ ed_result.returned
          /\ modified_count(ed_delta) = ed_result.count_before + 1

(***************************************************************************)
(* Claims about the keys of translation units (under SpecPlugin)           *)
(***************************************************************************)
\* the routed subrecord of the record whose rank is the index of the unit
SubrecordOfUnit(record, unit) ==
    CHOOSE k \in 1..Len(record.subrecords) :
        IsRouted(record, k) /\ Rank(record, k) = unit.index[1]

C20_LocalizedCase ==
    /\ pl_result.op = "extract_strings"
    /\ is_localized(pl_plugin)
    /\ pl_result.strings # <<>>

(***************************************************************************)
(* Claims about the localized applier (under SpecPlugin)                   *)
(***************************************************************************)
\* the texts of all tables of a set, by table kind and string id
TextsOfSet(set) ==
    [t \in DOMAIN set.files |->
        [id \in DOMAIN set.files[t].entries |-> set.files[t].entries[id].content]]

\* the translations of a list whose key the mapping holds
RECURSIVE MappedOnly(_, _)
MappedOnly(translations, map) ==
    IF translations = <<>> THEN <<>>
    ELSE (IF get_unique_key(Head(translations)) \in DOMAIN map
          THEN <<Head(translations)>> ELSE <<>>)
           \o MappedOnly(Tail(translations), map)

\* C21: in a localized plugin with its tables, for every unit extraction emits
\* the mapping rebuilt by the applier holds the unit's key and maps it to the
\* table kind and string id its text was read from; applying the unit with a
\* replacement text changes the text of exactly that entry and of no other
\* entry of any table; a translation whose key is not in the mapping is
\* skipped and the call still succeeds
C21_LocalizedApply ==
    (is_localized(pl_plugin) /\ pl_plugin.string_files # None) =>
    \A map \in {build_string_id_map(pl_plugin, 1, EmptyMap)} :
    \A units \in {extract_strings(pl_plugin)} :
    \A before \in {TextsOfSet(pl_plugin.string_files[1])} :
       /\ \A a \in 1..Len(units) :
          \A key \in {get_unique_key(units[a])} :
             /\ key \in DOMAIN map
             /\ map[key].file_type \in DOMAIN before
             /\ map[key].string_id \in DOMAIN before[map[key].file_type]
             /\ before[map[key].file_type][map[key].string_id] = units[a].original_text
             /\ \A text \in {<<88>>, <<>>, units[a].original_text \o <<33>>} :
                \A r \in {apply_translations_unified(pl_plugin,
                             << [units[a] EXCEPT !.translated_text = Some(text)] >>)} :
                   /\ r.ok
                   /\ r.applied_count = 1
                   /\ r.plugin.string_files # None
                   /\ TextsOfSet(r.plugin.string_files[1])
                        = [before EXCEPT ![map[key].file_type][map[key].string_id] = text]
                   /\ r.plugin.groups = pl_plugin.groups
       /\ \A translations \in TranslationLists(units) :
          \A r \in {apply_translations_unified(pl_plugin, translations)} :
          \A m \in {apply_translations_unified(pl_plugin,
                                               MappedOnly(translations, map))} :
             /\ r.ok
             /\ r.plugin = m.plugin
             /\ r.applied_count = m.applied_count
             /\ r.applied_count <= Len(MappedOnly(translations, map))
             /\ MappedOnly(translations, map) = <<>> =>
                   r.plugin = pl_plugin /\ r.applied_count = 0

\* the localized applier was given two translations, one of them under a key
\* the mapping does not hold: it applied the other one, whose table entry now
\* has another text than the table was loaded with, and reported success
C21_Witness ==
    /\ is_localized(pl_plugin)
    /\ pl_plugin.string_files # None
    /\ pl_result.op = "apply_translations"
    /\ pl_result.ok
    /\ pl_result.given = 2
    /\ pl_result.applied_count = 1
    /\ get_string_by_type(pl_plugin.string_files[1], "STRINGS", 1) # None
    /\ get_string_by_type(pl_plugin.string_files[1], "STRINGS", 1)[1].content # <<79>>
    /\ extract_strings(pl_plugin) # <<>>

(***************************************************************************)
(* SpecParse: parse_groups scans the boundaries of the top-level groups    *)
(* and parses every range in a task of its own (par_iter); the tasks start *)
(* and return in any order, a task not yet started is left out once an     *)
(* error has been saved, and the results are collected by range.           *)
(***************************************************************************)
MaxGroups == 3

\* the cursor of parse_groups: behind the header record
PgStart(data) == Record_parse(data, 0).pos

\* the closure of parse_groups: one range parsed on its own slice
parse_group_range(data, start, size) ==
    LET end == start + size IN
    IF end > Len(data) THEN [ok |-> FALSE]
    ELSE Group_parse(Slice(data, start, end), 0)

\* the groups of the tasks, by range
RECURSIVE collected_groups(_, _)
collected_groups(tasks, k) ==
    IF k > Len(tasks) THEN <<>>
    ELSE <<tasks[k].group>> \o collected_groups(tasks, k + 1)

\* a mutant of collect: the groups that parsed are returned although a range
\* failed
collect_keeping_parsed(tasks, error) ==
    [ok |-> TRUE,
     groups |-> collected_groups(
                  SelectSeq(tasks, LAMBDA t : t.state = "done" /\ t.ok), 1)]

\* collect() into Result<Vec<Group>, String>, then map_err: the saved error,
\* or the groups in the order of the ranges
collect(tasks, error) ==
    IF error # None THEN [ok |-> FALSE]
    ELSE [ok |-> TRUE, groups |-> collected_groups(tasks, 1)]

\* top-level groups as they lie in a file: a group of one record, a group
\* with a nested group, and a group whose record claims more payload than
\* the group holds
PgWeap ==
    GroupBytes(WEAP, 0, RecordBytes(WEAP, 0, 2049, SubrecordBytes(EDID, <<69, 0>>)))

PgNested ==
    GroupBytes(ARMO, 0,
        GroupBytes(write_u32(2050), 1,
            RecordBytes(ARMO, 0, 2050, SubrecordBytes(FULL, <<65, 0>>)))
     \o RecordBytes(ARMO, 0, 2051, <<>>))

PgBroken ==
    GroupBytes(MISC, 0, RecordHeaderBytes(MISC, 10, 0, 2052) \o <<1, 2>>)

PgPieces == {PgWeap, PgNested, PgBroken}

RECURSIVE PgSequences(_)
PgSequences(n) ==
    IF n = 0 THEN { <<>> }
    ELSE { <<>> } \cup { p \o s : p \in PgPieces, s \in PgSequences(n - 1) }

\* what may follow the groups: nothing, fewer than 8 bytes, a group header
\* that declares more bytes than the file has, a record where a group is
\* expected, a group with a size below its header
PgTails ==
    { <<>>,
      <<1, 2, 3, 4>>,
      GRUP \o write_u32(40) \o WEAP \o write_i32(0) \o write_u16(0) \o write_u16(0)
           \o write_u32(0),
      RecordBytes(WEAP, 0, 2053, <<>>),
      GRUP \o write_u32(8) }

PgInit ==
    /\ \E s \in PgSequences(MaxGroups), tail \in PgTails :
          pg_data = RecordBytes(TES4, 0, 0, SubrecordBytes(DATA, <<1>>)) \o s \o tail
    /\ pg_ranges = None
    /\ pg_tasks = <<>>
    /\ pg_order = <<>>
    /\ pg_error = None
    /\ pg_result = None
    /\ SfIdle
    /\ RecIdle
    /\ PlIdle
    /\ RtIdle
    /\ EdIdle
    /\ CxIdle

\* parse_groups up to the fork: the boundary scan, the empty case, and one
\* task per range
ScanGroupBoundaries ==
    /\ pg_ranges = None
    /\ pg_result = None
    /\ \E group_ranges \in {scan_group_boundaries(pg_data, PgStart(pg_data), <<>>)} :
         IF ~group_ranges.ok
         THEN /\ pg_result' = Some([ok |-> FALSE])
              /\ UNCHANGED <<pg_ranges, pg_tasks>>
         ELSE /\ pg_ranges' = Some(group_ranges.boundaries)
              /\ pg_tasks' = [k \in 1..Len(group_ranges.boundaries) |->
                                 [state |-> "pending"]]
              /\ pg_result' = IF group_ranges.boundaries = <<>>
                              THEN Some([ok |-> TRUE, groups |-> <<>>])
                              ELSE None
    /\ UNCHANGED <<pg_data, pg_order, pg_error, sfvars, recvars, plvars, rtvars, edvars, cxvars>>

\* a worker takes the task of range k
TaskStart(k) ==
    /\ pg_result = None
    /\ pg_tasks[k].state = "pending"
    /\ pg_tasks' = [pg_tasks EXCEPT ![k] = [state |-> "running"]]
    /\ UNCHANGED <<pg_data, pg_ranges, pg_order, pg_error, pg_result,
                   sfvars, recvars, plvars, rtvars, edvars, cxvars>>

\* the task of range k returns; the collector saves the first error it sees
TaskReturn(k) ==
    /\ pg_result = None
    /\ pg_tasks[k].state = "running"
    /\ \E g \in {parse_group_range(pg_data, pg_ranges[1][k][1], pg_ranges[1][k][2])} :
         /\ pg_tasks' = [pg_tasks EXCEPT ![k] =
                            IF g.ok THEN [state |-> "done", ok |-> TRUE, group |-> g.group]
                            ELSE [state |-> "done", ok |-> FALSE]]
         /\ pg_error' = IF ~g.ok /\ pg_error = None THEN Some(k) ELSE pg_error
    /\ pg_order' = Append(pg_order, k)
    /\ UNCHANGED <<pg_data, pg_ranges, pg_result, sfvars, recvars, plvars, rtvars, edvars, cxvars>>

\* once an error is saved, a task that has not started is left out
TaskSkip(k) ==
    /\ pg_result = None
    /\ pg_error # None
    /\ pg_tasks[k].state = "pending"
    /\ pg_tasks' = [pg_tasks EXCEPT ![k] = [state |-> "skipped"]]
    /\ UNCHANGED <<pg_data, pg_ranges, pg_order, pg_error, pg_result,
                   sfvars, recvars, plvars, rtvars, edvars, cxvars>>

\* the join: every task has returned or was left out, and parse_groups
\* returns what was collected
Collect ==
    /\ pg_result = None
    /\ pg_ranges # None
    /\ \A k \in 1..Len(pg_tasks) : pg_tasks[k].state \in {"done", "skipped"}
    /\ pg_result' = Some(collect(pg_tasks, pg_error))
    /\ UNCHANGED <<pg_data, pg_ranges, pg_tasks, pg_order, pg_error,
                   sfvars, recvars, plvars, rtvars, edvars, cxvars>>

PgNext ==
    \/ ScanGroupBoundaries
    \/ \E k \in 1..Len(pg_tasks) : TaskStart(k)
    \/ \E k \in 1..Len(pg_tasks) : TaskReturn(k)
    \/ \E k \in 1..Len(pg_tasks) : TaskSkip(k)
    \/ Collect

SpecParse == PgInit /\ [][PgNext]_vars

\* C22: the ranges of the boundary scan are pairwise disjoint and ascending;
\* whatever the order in which the parse tasks start and return, parse_groups
\* returns what parsing the ranges one after another returns, the groups in
\* the order of the ranges; if a range fails to parse the call fails and
\* returns no group
C22_ParallelParse ==
    /\ pg_ranges # None =>
          \A k \in 1..Len(pg_ranges[1]) :
             /\ pg_ranges[1][k][1] >= PgStart(pg_data)
             /\ pg_ranges[1][k][2] > 0
             /\ k < Len(pg_ranges[1]) =>
                   pg_ranges[1][k][1] + pg_ranges[1][k][2] <= pg_ranges[1][k + 1][1]
    /\ pg_result # None =>
          \A seq \in {parse_groups(pg_data, PgStart(pg_data))} :
             /\ pg_result[1].ok = seq.ok
             /\ pg_result[1].ok => pg_result[1].groups = seq.groups
             /\ ~pg_result[1].ok => DOMAIN pg_result[1] = {"ok"}
             /\ (pg_ranges # None /\ pg_result[1].ok) =>
                   /\ Len(pg_result[1].groups) = Len(pg_ranges[1])
                   /\ \A k \in 1..Len(pg_ranges[1]) :
                         \A g \in {parse_group_range(pg_data, pg_ranges[1][k][1],
                                                     pg_ranges[1][k][2])} :
                            g.ok /\ pg_result[1].groups[k] = g.group
             /\ (pg_ranges # None
                   /\ \E k \in 1..Len(pg_ranges[1]) :
                         ~parse_group_range(pg_data, pg_ranges[1][k][1],
                                            pg_ranges[1][k][2]).ok)
                  => ~pg_result[1].ok

\* three different groups were parsed by tasks that returned in the reverse
\* of the file order, and parse_groups returned them
C22_Witness ==
    /\ pg_result # None
    /\ pg_result[1].ok
    /\ Len(pg_result[1].groups) = 3
    /\ pg_order = <<3, 2, 1>>
    /\ pg_result[1].groups[1] # pg_result[1].groups[2]

\* a range failed after another one had been parsed, a third task was never
\* started, and parse_groups returned the error
C22_FailureCase ==
    /\ pg_result # None
    /\ ~pg_result[1].ok
    /\ \E i, j, k \in 1..Len(pg_tasks) :
          /\ pg_tasks[i].state = "done" /\ pg_tasks[i].ok
          /\ pg_tasks[j].state = "done" /\ ~pg_tasks[j].ok
          /\ pg_tasks[k].state = "skipped"

(***************************************************************************)
(* Claims about failed decompression (under SpecRecord)                    *)
(***************************************************************************)
\* the header of the record at the start of the buffer declares a payload
\* the buffer holds
HoldsRecord(data) ==
    /\ Len(data) >= 24
    /\ read_u32(data, 4).val <= 100000000
    /\ 24 + read_u32(data, 4).val <= Len(data)

\* the payload of the record at the start of the buffer
PayloadOf(data) == Slice(data, 24, 24 + read_u32(data, 4).val)

\* the ways a compressed payload fails to decompress: shorter than 4 bytes,
\* a declared length of 0 or above 50MB, no stream, a stream that does not
\* inflate, or an inflated length other than the declared one
FailsShort(payload) == Len(payload) < 4
FailsDeclared(payload) ==
    /\ Len(payload) >= 4
    /\ read_u32(payload, 0).val = 0 \/ read_u32(payload, 0).val > 50000000
FailsEmpty(payload) ==
    /\ Len(payload) = 4
    /\ ~FailsDeclared(payload)
FailsCorrupt(payload) ==
    /\ Len(payload) > 4
    /\ ~FailsDeclared(payload)
    /\ ~Inflate(Slice(payload, 4, Len(payload))).ok
FailsLength(payload) ==
    /\ Len(payload) > 4
    /\ ~FailsDeclared(payload)
    /\ Inflate(Slice(payload, 4, Len(payload))).ok
    /\ Len(Inflate(Slice(payload, 4, Len(payload))).data) # read_u32(payload, 0).val

DecompressionFails(payload) ==
    \/ FailsShort(payload)
    \/ FailsDeclared(payload)
    \/ FailsEmpty(payload)
    \/ FailsCorrupt(payload)
    \/ FailsLength(payload)

\* a record that follows in the same group, and a group that follows
FollowingRecord == RecordBytes(MISC, 0, 2060, SubrecordBytes(EDID, <<69, 0>>))
FollowingGroup == GroupBytes(write_u32(2060), 1, FollowingRecord)

\* C23: when a record has the compressed flag and its payload fails to
\* decompress, Record::parse succeeds all the same: the record keeps its
\* flags, has no subrecords and holds the payload bytes as they were, and
\* the records and groups behind it are parsed
C23_OpaqueOnFailure ==
    (/\ rec_parsed # None
     /\ HoldsRecord(rec_data)
     /\ HasFlag(read_u32(rec_data, 8).val, COMPRESSED)
     /\ DecompressionFails(PayloadOf(rec_data)))
    => /\ rec_parsed[1].ok
       /\ rec_parsed[1].pos = 24 + read_u32(rec_data, 4).val
       /\ rec_parsed[1].record.flags = read_u32(rec_data, 8).val
       /\ rec_parsed[1].record.subrecords = <<>>
       /\ rec_parsed[1].record.raw_data = PayloadOf(rec_data)
       /\ rec_parsed[1].record.original_compressed_data = Some(PayloadOf(rec_data))
       /\ \A g \in {Group_parse(GroupBytes(WEAP, 0,
                        ParsedBytes(rec_data) \o FollowingRecord \o FollowingGroup), 0)} :
             /\ g.ok
             /\ Len(g.group.children) = 3
             /\ g.group.children[1].kind = "Record"
             /\ g.group.children[1].record.subrecords = <<>>
             /\ g.group.children[1].record.raw_data = PayloadOf(rec_data)
             /\ g.group.children[2] = GroupChild_Record(Record_parse(FollowingRecord, 0)).child
             /\ g.group.children[3] = GroupChild_Group(Group_parse(FollowingGroup, 0)).child

\* a compressed record whose stream inflates to another length than the
\* payload declares has been parsed
C23_Witness ==
    /\ rec_parsed # None
    /\ rec_parsed[1].ok
    /\ HoldsRecord(rec_data)
    /\ HasFlag(read_u32(rec_data, 8).val, COMPRESSED)
    /\ FailsLength(PayloadOf(rec_data))
    /\ rec_parsed[1].record.subrecords = <<>>

\* the other ways to fail, each with a compressed record parsed
C23_ShortCase ==
    /\ rec_parsed # None /\ HoldsRecord(rec_data)
    /\ HasFlag(read_u32(rec_data, 8).val, COMPRESSED)
    /\ FailsShort(PayloadOf(rec_data)) /\ PayloadOf(rec_data) # <<>>
C23_ZeroCase ==
    /\ rec_parsed # None /\ HoldsRecord(rec_data)
    /\ HasFlag(read_u32(rec_data, 8).val, COMPRESSED)
    /\ Len(PayloadOf(rec_data)) >= 4 /\ read_u32(PayloadOf(rec_data), 0).val = 0
C23_TooLargeCase ==
    /\ rec_parsed # None /\ HoldsRecord(rec_data)
    /\ HasFlag(read_u32(rec_data, 8).val, COMPRESSED)
    /\ Len(PayloadOf(rec_data)) >= 4 /\ read_u32(PayloadOf(rec_data), 0).val > 50000000
C23_EmptyCase ==
    /\ rec_parsed # None /\ HoldsRecord(rec_data)
    /\ HasFlag(read_u32(rec_data, 8).val, COMPRESSED)
    /\ FailsEmpty(PayloadOf(rec_data))
C23_CorruptCase ==
    /\ rec_parsed # None /\ HoldsRecord(rec_data)
    /\ HasFlag(read_u32(rec_data, 8).val, COMPRESSED)
    /\ FailsCorrupt(PayloadOf(rec_data))

(***************************************************************************)
(* SpecField: a plugin whose record has two routed subrecords, plain or    *)
(* compressed; translations of chosen lengths are applied to it, and each  *)
(* application writes the file.                                            *)
(***************************************************************************)
\* u16::MAX, the largest value of a subrecord's size field
U16Max == 65535

\* the payload of the record of a FieldFile
FieldPayload ==
    SubrecordBytes(EDID, <<69, 0>>) \o SubrecordBytes(FULL, <<65, 0>>)
      \o SubrecordBytes(DATA, <<1>>) \o SubrecordBytes(FULL, <<66, 0>>)

FieldFile(flags) ==
    RecordBytes(TES4, 0, 0, SubrecordBytes(DATA, <<1>>))
      \o GroupBytes(WEAP, 0,
           RecordBytes(WEAP, flags, 2049,
               IF HasFlag(flags, COMPRESSED) THEN CompressedBytes(FieldPayload, 156)
               ELSE FieldPayload))

\* the encoded lengths of the replacement texts: short ones, and the ones
\* around the largest payload a 16-bit size can count (the NUL is added)
FieldLengths == {1, 2} \cup ((U16Max - 1)..(U16Max + MaxOver))

FieldText(n) == [i \in 1..n |-> 88]

FieldInit ==
    /\ \E flags \in {0, COMPRESSED} :
          pl_file = [name |-> PluginName, data |-> FieldFile(flags)]
    /\ \E loaded \in {load(pl_file.name, pl_file.data)} :
          loaded.ok /\ pl_plugin = loaded.plugin
    /\ pl_result = [op |-> "load"]
    /\ SfIdle
    /\ RecIdle
    /\ RtIdle
    /\ EdIdle
    /\ PgIdle
    /\ CxIdle

\* Plugin::apply_translations_unified with one of the units extracted after
\* loading, its translated text set to a text of one of the lengths
ApplyTranslationOfLength ==
    /\ \E units \in {extract_strings(load(pl_file.name, pl_file.data).plugin)} :
       \E a \in 1..Len(units), n \in FieldLengths :
       \E r \in {apply_translations_unified(pl_plugin,
                    << [units[a] EXCEPT !.translated_text = Some(FieldText(n))] >>)} :
         /\ pl_plugin' = r.plugin
         /\ pl_result' = [op |-> "apply_translations",
                          unit |-> units[a],
                          length |-> n,
                          ok |-> r.ok,
                          applied_count |-> r.applied_count,
                          output |-> Some(r.output)]
    /\ UNCHANGED <<pl_file, sfvars, recvars, rtvars, edvars, pgvars, cxvars>>

FieldNext == ApplyTranslationOfLength

SpecField == FieldInit /\ [][FieldNext]_vars

\* the record of a FieldFile as the plugin holds it, and the payload of that
\* record in a written file (inflated when the record is compressed)
FieldRecord(p) == p.groups[1].children[1].record

FieldWrittenPayload(output) ==
    LET at == Len(RecordBytes(TES4, 0, 0, SubrecordBytes(DATA, <<1>>))) + 24
        payload == Slice(output, at + 24, at + 24 + read_u32(output, at + 4).val)
    IN  IF HasFlag(read_u32(output, at + 8).val, COMPRESSED)
        THEN Inflate(Slice(payload, 4, Len(payload))).data
        ELSE payload

\* where the subrecord k begins in the serialized subrecords
RECURSIVE OffsetOf(_, _)
OffsetOf(subrecords, k) ==
    IF k = 1 THEN 0
    ELSE OffsetOf(subrecords, k - 1) + 6 + Len(subrecords[k - 1].data)

\* the subrecord the applied unit belongs to
AppliedSubrecord == SubrecordOfUnit(FieldRecord(pl_plugin), pl_result.unit)

\* C24: after the applier has replaced the payload of a subrecord by the
\* encoded text and its NUL, the declared size of the subrecord is the
\* length of the payload, and the size field written for it (by the plain
\* write path, and by recompress_data for a compressed record) is the number
\* of payload bytes written behind it, whatever the length of the text
C24_SizeIsPayloadLength ==
    (pl_result.op = "apply_translations" /\ pl_result.applied_count = 1) =>
    \A k \in {AppliedSubrecord} :
    \A subrecords \in {FieldRecord(pl_plugin).subrecords} :
       /\ subrecords[k].data = FieldText(pl_result.length) \o <<0>>
       /\ subrecords[k].size = Len(subrecords[k].data)
       /\ read_u16(FieldWrittenPayload(pl_result.output[1]),
                   OffsetOf(subrecords, k) + 4).val = Len(subrecords[k].data)

\* what the code keeps: the declared size and the written size field are the
\* payload length cut to 16 bits, so they are the payload length as long as
\* the encoded text is shorter than 65535 bytes
SizeIsPayloadLengthModulo ==
    (pl_result.op = "apply_translations" /\ pl_result.applied_count = 1) =>
    \A k \in {AppliedSubrecord} :
    \A subrecords \in {FieldRecord(pl_plugin).subrecords} :
       /\ subrecords[k].data = FieldText(pl_result.length) \o <<0>>
       /\ subrecords[k].size = Len(subrecords[k].data) % (U16Max + 1)
       /\ read_u16(FieldWrittenPayload(pl_result.output[1]),
                   OffsetOf(subrecords, k) + 4).val = Len(subrecords[k].data) % (U16Max + 1)
       /\ pl_result.length < U16Max => subrecords[k].size = Len(subrecords[k].data)

(***************************************************************************)
(* Claims about the oversized-field escape (under SpecRecord)              *)
(***************************************************************************)
\* the subrecord k was parsed from an escape: its declared size is the
\* marker 0 while it has a payload
FromEscape(subrecord) == subrecord.size = 0 /\ subrecord.data # <<>>

\* two subrecord lists with the same types and the same payloads
SameFields(a, b) ==
    /\ Len(a) = Len(b)
    /\ \A k \in 1..Len(a) :
          /\ a[k].record_type_bytes = b[k].record_type_bytes
          /\ a[k].record_type = b[k].record_type
          /\ a[k].data = b[k].data

\* the payload begins with a sentinel
BeginsWithSentinel(payload) ==
    Len(payload) >= 6 /\ Slice(payload, 0, 4) = XXXX

\* C25: Subrecord::parse turns a sentinel (of size 4, else an error) and the
\* header behind it into one subrecord whose payload has the length the
\* sentinel carries; and when a record with such a subrecord is marked
\* modified and written, parsing what was written gives the subrecords held
\* in memory: the same types and the same payload bytes
C25_EscapeSurvivesModification ==
    /\ (rec_parsed # None /\ HoldsRecord(rec_data)
          /\ ~HasFlag(read_u32(rec_data, 8).val, COMPRESSED)
          /\ BeginsWithSentinel(PayloadOf(rec_data)))
       => \A payload \in {PayloadOf(rec_data)} :
             IF read_u16(payload, 4).val # 4 THEN ~rec_parsed[1].ok
             ELSE (Len(payload) >= 16
                     /\ 16 + read_u32(payload, 6).val = Len(payload))
                  => /\ rec_parsed[1].ok
                     /\ Len(rec_parsed[1].record.subrecords) = 1
                     /\ rec_parsed[1].record.subrecords[1].record_type_bytes
                          = Slice(payload, 10, 14)
                     /\ Len(rec_parsed[1].record.subrecords[1].data)
                          = read_u32(payload, 6).val
                     /\ rec_parsed[1].record.subrecords[1].data
                          = Slice(payload, 16, Len(payload))
    /\ (rec_output # None /\ rec_parsed[1].record.is_modified
          /\ \E k \in 1..Len(rec_parsed[1].record.subrecords) :
                FromEscape(rec_parsed[1].record.subrecords[k]))
       => \A again \in {Record_parse(rec_output[1], 0)} :
             /\ again.ok
             /\ SameFields(again.record.subrecords, rec_parsed[1].record.subrecords)

\* what the code keeps: the parse of the escape, and the rewrite of a
\* modified record that is not compressed (the escape itself is not written
\* again: the payload follows a plain 16-bit size, here below 65536)
EscapeSurvivesPlainWrite ==
    /\ (rec_parsed # None /\ HoldsRecord(rec_data)
          /\ ~HasFlag(read_u32(rec_data, 8).val, COMPRESSED)
          /\ BeginsWithSentinel(PayloadOf(rec_data)))
       => \A payload \in {PayloadOf(rec_data)} :
             IF read_u16(payload, 4).val # 4 THEN ~rec_parsed[1].ok
             ELSE (Len(payload) >= 16
                     /\ 16 + read_u32(payload, 6).val = Len(payload))
                  => /\ rec_parsed[1].ok
                     /\ Len(rec_parsed[1].record.subrecords) = 1
                     /\ rec_parsed[1].record.subrecords[1].data
                          = Slice(payload, 16, Len(payload))
    /\ (rec_output # None /\ rec_parsed[1].record.is_modified
          /\ ~HasFlag(rec_parsed[1].record.flags, COMPRESSED)
          /\ \E k \in 1..Len(rec_parsed[1].record.subrecords) :
                FromEscape(rec_parsed[1].record.subrecords[k]))
       => \A again \in {Record_parse(rec_output[1], 0)} :
             /\ again.ok
             /\ SameFields(again.record.subrecords, rec_parsed[1].record.subrecords)
             /\ \A k \in 1..Len(again.record.subrecords) :
                   ~FromEscape(again.record.subrecords[k])

\* a modified plain record with an escape between two other subrecords was
\* written; and a sentinel of size 3 was refused
EscapePlainCase ==
    /\ rec_output # None /\ rec_parsed[1].record.is_modified
    /\ ~HasFlag(rec_parsed[1].record.flags, COMPRESSED)
    /\ Len(rec_parsed[1].record.subrecords) = 3
    /\ FromEscape(rec_parsed[1].record.subrecords[2])
EscapeRefusedCase ==
    /\ rec_parsed # None /\ HoldsRecord(rec_data)
    /\ BeginsWithSentinel(PayloadOf(rec_data))
    /\ read_u16(PayloadOf(rec_data), 4).val = 3
    /\ ~rec_parsed[1].ok

\* the records below the children lo..hi in depth-first order, a nested
\* group's records in place; the range is halved
RECURSIVE RecordsInRange(_, _, _)
RecordsInRange(children, lo, hi) ==
    IF lo > hi THEN <<>>
    ELSE IF lo = hi
    THEN IF children[lo].kind = "Group"
         THEN RecordsInRange(children[lo].group.children, 1,
                             Len(children[lo].group.children))
         ELSE << children[lo].record >>
    ELSE LET mid == (lo + hi) \div 2 IN
         RecordsInRange(children, lo, mid) \o RecordsInRange(children, mid + 1, hi)

\* the records of a plugin in depth-first file order
EslRecordsOf(p) == RecordsInRange(TopLevel(p), 1, Len(p.groups))

\* the record belongs to the plugin itself: its top byte indexes no master
SelfOwned(p, record) == record.form_id \div 16777216 >= Len(p.masters)

\* the number of self-owned records among the first k records
OwnBefore(p, records, k) ==
    Cardinality({ j \in 1..k : SelfOwned(p, records[j]) })

\* C26: after a successful eslify_formids the FormID of the i-th self-owned
\* record (in depth-first file order, i from 0), with its master byte masked
\* off, is 0x800 + i and so lies in 0x800..0xFFF; the records of a master
\* keep their FormID and their modified flag
C26_RenumberedIntoRange ==
    [][ (pl_result'.op = "eslify_formids" /\ pl_result'.ok) =>
          \A before \in {EslRecordsOf(pl_plugin)} :
          \A after \in {EslRecordsOf(pl_plugin')} :
             /\ Len(after) = Len(before)
             /\ \A k \in 1..Len(before) :
                   IF SelfOwned(pl_plugin, before[k])
                   THEN /\ after[k].form_id % 16777216
                             = 2048 + OwnBefore(pl_plugin, before, k) - 1
                        /\ after[k].form_id % 16777216 \in 2048..4095
                   ELSE /\ after[k].form_id = before[k].form_id
                        /\ after[k].is_modified = before[k].is_modified ]_vars

\* what the code keeps: the low 12 bits of the i-th self-owned record become
\* 0x800 + i and the upper 20 bits stay, so that the masked FormID is
\* 0x800 + i exactly when bits 12..23 were zero before; the record is marked
\* modified; the records of a master keep their FormID and their flag
RenumberedLowBits ==
    [][ (pl_result'.op = "eslify_formids" /\ pl_result'.ok) =>
          \A before \in {EslRecordsOf(pl_plugin)} :
          \A after \in {EslRecordsOf(pl_plugin')} :
             /\ Len(after) = Len(before)
             /\ \A k \in 1..Len(before) :
                   IF SelfOwned(pl_plugin, before[k])
                   THEN /\ after[k].form_id % 4096
                             = 2048 + OwnBefore(pl_plugin, before, k) - 1
                        /\ after[k].form_id \div 4096 = before[k].form_id \div 4096
                        /\ after[k].is_modified
                        /\ (before[k].form_id % 16777216 < 4096)
                              => after[k].form_id % 16777216
                                   = 2048 + OwnBefore(pl_plugin, before, k) - 1
                   ELSE /\ after[k].form_id = before[k].form_id
                        /\ after[k].is_modified = before[k].is_modified ]_vars

(***************************************************************************)
(* Claims about what renumbering leaves alone (under SpecPlugin)           *)
(***************************************************************************)
\* a compressed record whose decompression failed when it was loaded
IsOpaque(record) ==
    /\ HasFlag(record.flags, COMPRESSED)
    /\ record.original_compressed_data = Some(record.raw_data)

\* the payload of a record as it lies in a file: the bytes behind its header
PayloadOfSpan(span) == Slice(span, 24, Len(span))

\* C27: renumbering changes the FormID field only: for every record the
\* subrecords parsed from the file written after eslify_formids are the
\* subrecords the record had before the call, and an opaque compressed
\* record is written with the payload bytes it was loaded with, renumbered
\* or not
C27_RenumberingKeepsPayload ==
    [][ pl_result'.op = "eslify_formids" =>
          \A before \in {RecordsOf(pl_plugin)} :
          \A output \in {write_to_file(pl_plugin')} :
          \A again \in {load(pl_plugin'.name, output)} :
             /\ again.ok
             /\ Len(RecordsOf(again.plugin)) = Len(before)
             /\ \A k \in 1..Len(before) :
                   /\ SameFields(RecordsOf(again.plugin)[k].subrecords,
                                 before[k].subrecords)
                   /\ IsOpaque(before[k]) =>
                         PayloadOfSpan(RecordSpans(output, 0)[k + 1])
                           = before[k].raw_data ]_vars

\* what the code keeps: the subrecords of every record survive, and an opaque
\* record keeps its payload as long as it is not marked modified; a
\* renumbered opaque record is written as the compression of no subrecords
RenumberingKeepsSubrecords ==
    [][ pl_result'.op = "eslify_formids" =>
          \A before \in {RecordsOf(pl_plugin)} :
          \A after \in {RecordsOf(pl_plugin')} :
          \A output \in {write_to_file(pl_plugin')} :
          \A again \in {load(pl_plugin'.name, output)} :
             /\ again.ok
             /\ Len(RecordsOf(again.plugin)) = Len(before)
             /\ \A k \in 1..Len(before) :
                   /\ SameFields(RecordsOf(again.plugin)[k].subrecords,
                                 before[k].subrecords)
                   /\ IsOpaque(before[k]) =>
                         PayloadOfSpan(RecordSpans(output, 0)[k + 1])
                           = IF after[k].is_modified
                             THEN write_u32(0) \o Deflate(<<>>)
                             ELSE before[k].raw_data ]_vars

\* an opaque record of the plugin itself has been renumbered
C27_OpaqueCase ==
    /\ pl_result.op = "eslify_formids"
    /\ \E k \in 1..Len(RecordsOf(pl_plugin)) :
          /\ IsOpaque(RecordsOf(pl_plugin)[k])
          /\ RecordsOf(pl_plugin)[k].is_modified
          /\ RecordsOf(pl_plugin)[k].raw_data # <<>>

(***************************************************************************)
(* SpecLoad: a file whose groups declare sizes that fit their children or  *)
(* not is loaded and, when it loads, written back unchanged.               *)
(***************************************************************************)
\* how far the size a group declares may lie from the size of its children
MaxSlack == 8

LoadHeader == RecordBytes(TES4, 0, 0, SubrecordBytes(DATA, <<1>>))
LoadFirst == RecordBytes(WEAP, 0, 2049, SubrecordBytes(EDID, <<69, 0>>))
LoadSecond == RecordBytes(WEAP, 0, 2050, <<>>)

\* a group that declares `slack` bytes more than its children have
GroupDeclaring(label, group_type, children, slack) ==
    GRUP \o write_u32(24 + Len(children) + slack) \o label \o write_i32(group_type)
         \o write_u16(2057) \o write_u16(2571) \o write_u32(3085) \o children

\* the slacks drawn: none, a few bytes less or more, a whole record less or
\* more
LoadSlacks ==
    {0, 0 - MaxSlack, MaxSlack, 0 - Len(LoadFirst), Len(LoadSecond)}

\* a top-level group holding a nested group with one record, and possibly a
\* record behind it; then possibly bytes that are no group
LoadFiles ==
    { LoadHeader
        \o GroupDeclaring(WEAP, 0,
               GroupDeclaring(write_u32(2049), group_type, LoadFirst, inner) \o behind,
               outer)
        \o tail :
        group_type \in {1, 99},
        inner \in LoadSlacks,
        outer \in {0, 0 - MaxSlack, MaxSlack},
        behind \in {<<>>, LoadSecond},
        tail \in {<<>>, <<1, 2, 3, 4>>} }

LoadInit ==
    /\ \E data \in LoadFiles : pl_file = [name |-> PluginName, data |-> data]
    /\ pl_plugin = <<>>
    /\ pl_result = [op |-> "none"]
    /\ SfIdle
    /\ RecIdle
    /\ RtIdle
    /\ EdIdle
    /\ PgIdle
    /\ CxIdle

\* Plugin::load
LoadPlugin ==
    /\ pl_result.op = "none"
    /\ \E loaded \in {load(pl_file.name, pl_file.data)} :
         /\ pl_plugin' = IF loaded.ok THEN loaded.plugin ELSE <<>>
         /\ pl_result' = [op |-> "load", ok |-> loaded.ok]
    /\ UNCHANGED <<pl_file, sfvars, recvars, rtvars, edvars, pgvars, cxvars>>

\* Plugin::write_to_file of the plugin as loaded
WriteLoaded ==
    /\ pl_result.op = "load"
    /\ pl_result.ok
    /\ pl_result' = [op |-> "write_to_file", ok |-> TRUE,
                     output |-> Some(write_to_file(pl_plugin))]
    /\ UNCHANGED <<pl_file, pl_plugin, sfvars, recvars, rtvars, edvars, pgvars, cxvars>>

LoadNext ==
    \/ LoadPlugin
    \/ WriteLoaded

SpecLoad == LoadInit /\ [][LoadNext]_vars

\* the bytes the parser took for a child: header and payload of a record,
\* header and parsed children of a group
RECURSIVE ParsedLen(_)
RECURSIVE ParsedSum(_)
ParsedLen(child) ==
    IF child.kind = "Group" THEN 24 + ParsedSum(child.group.children)
    ELSE 24 + child.record.data_size

ParsedSum(children) ==
    IF children = <<>> THEN 0
    ELSE ParsedLen(Head(children)) + ParsedSum(Tail(children))

\* every group below, at any depth, declares 24 plus what its children take
RECURSIVE ExactlyFilled(_)
ExactlyFilled(children) ==
    \A k \in 1..Len(children) :
       children[k].kind = "Group" =>
          /\ children[k].group.size = 24 + ParsedSum(children[k].group.children)
          /\ ExactlyFilled(children[k].group.children)

\* every group below, at any depth, has children that reach its declared
\* end, the last of them possibly beyond it
RECURSIVE FilledOrOverrun(_)
FilledOrOverrun(children) ==
    \A k \in 1..Len(children) :
       children[k].kind = "Group" =>
          \A c \in {children[k].group.children} :
             /\ children[k].group.size <= 24 + ParsedSum(c)
             /\ c # <<>> =>
                   children[k].group.size > 24 + ParsedSum(SubSeq(c, 1, Len(c) - 1))
             /\ FilledOrOverrun(c)

\* the plugin has been loaded
Loaded == pl_result.op \in {"load", "write_to_file"} /\ pl_result.ok

\* C28: Group::parse succeeds only if the children exactly fill the declared
\* size: in a plugin that loaded, every group at any depth declares 24 plus
\* the bytes of its children, no child reaching beyond its parent; and the
\* plugin, not mutated, is written back byte for byte, group sizes included
C28_GroupsExactlyFilled ==
    /\ Loaded => ExactlyFilled(TopLevel(pl_plugin))
    /\ (Loaded /\ pl_result.op = "write_to_file") => pl_result.output[1] = pl_file.data

\* what the code keeps: the children of a group reach its declared end, and
\* the last child of a nested group may reach beyond it (a top-level group is
\* parsed on its own slice and is exactly filled); the file written is the
\* file loaded whenever every group is exactly filled and nothing follows
\* the last group, and it always loads again to the same records
GroupsFilledOrOverrun ==
    /\ Loaded =>
          /\ FilledOrOverrun(TopLevel(pl_plugin))
          /\ \A k \in 1..Len(pl_plugin.groups) :
                pl_plugin.groups[k].size
                  = 24 + ParsedSum(pl_plugin.groups[k].children)
    /\ (Loaded /\ pl_result.op = "write_to_file") =>
          /\ (ExactlyFilled(TopLevel(pl_plugin))
                /\ Len(LoadHeader) + ParsedSum(TopLevel(pl_plugin)) = Len(pl_file.data))
               => pl_result.output[1] = pl_file.data
          /\ \A again \in {load(pl_file.name, pl_result.output[1])} :
                /\ again.ok
                /\ RecordsOf(again.plugin) = RecordsOf(pl_plugin)
                /\ ExactlyFilled(TopLevel(again.plugin))

\* a file whose groups are exactly filled was loaded and written back
ExactCase ==
    /\ Loaded /\ pl_result.op = "write_to_file"
    /\ ExactlyFilled(TopLevel(pl_plugin))
    /\ pl_result.output[1] = pl_file.data
    /\ Len(RecordsOf(pl_plugin)) = 2

(***************************************************************************)
(* SpecContext: a localized plugin inside a LocalizedPluginContext; the    *)
(* callers reach the plugin through plugin()/plugin_mut() and the tables   *)
(* through string_files()/string_files_mut().                              *)
(***************************************************************************)
\* the new texts a caller writes through string_files_mut()
ContextTexts == { <<88>> }

\* LocalizedPluginContext::load: the plugin is loaded, the tables are
\* loaded, the plugin is given a clone of them and the context keeps them
CxInit ==
    /\ pl_file = [name |-> PluginName, data |-> LocalizedFile]
    /\ \E loaded \in {load(pl_file.name, pl_file.data)}, string_files \in StringFileSets :
          /\ loaded.ok
          /\ pl_plugin = set_string_files(loaded.plugin, string_files)
          /\ cx_string_files = Some(string_files)
    /\ pl_result = [op |-> "load"]
    /\ cx_result = [op |-> "load"]
    /\ SfIdle
    /\ RecIdle
    /\ RtIdle
    /\ EdIdle
    /\ PgIdle

\* string_files_mut().update_string(file_type, id, text)
StringFilesMutUpdateString ==
    /\ \E file_type \in {"STRINGS", "DLSTRINGS", "ILSTRINGS"}, id \in 0..MaxStringId,
          text \in ContextTexts :
        \E r \in {set_update_string(cx_string_files[1], file_type, id, text)} :
          /\ cx_string_files' = Some(r.set)
          /\ cx_result' = [op |-> "update_string", ok |-> r.ok]
    /\ UNCHANGED <<sfvars, recvars, plvars, rtvars, edvars, pgvars>>

\* save_string_files
SaveStringFiles ==
    /\ cx_result' = [op |-> "save_string_files", ok |-> TRUE,
                     written |-> write_all(cx_string_files[1])]
    /\ UNCHANGED <<cx_string_files, sfvars, recvars, plvars, rtvars, edvars, pgvars>>

\* the plugin of the context is reached through plugin() and plugin_mut():
\* extraction and translation application are the plugin's own
CxNext ==
    \/ StringFilesMutUpdateString
    \/ SaveStringFiles
    \/ ExtractStrings
    \/ ApplyTranslations

SpecContext == CxInit /\ [][CxNext]_vars

\* C29: in a LocalizedPluginContext there is one shared set of tables: after
\* any sequence of updates through string_files_mut() and of translation
\* applications through the plugin, the set of the context and the set the
\* plugin extracts from and applies to hold the same texts under the same
\* ids, and save_string_files writes the files the plugin's set would give
C29_OneSharedSet ==
    cx_string_files # None =>
       /\ TextsOfSet(cx_string_files[1]) = TextsOfSet(pl_plugin.string_files[1])
       /\ cx_result.op = "save_string_files" =>
             cx_result.written = write_all(pl_plugin.string_files[1])

\* what the code keeps: the two sets are copies made equal by load; the set
\* of the context changes by string_files_mut() only and the set of the
\* plugin by translation application only, each leaving the other as it
\* was; save_string_files writes the set of the context
TwoSeparateSets ==
    [][ /\ cx_string_files' # cx_string_files =>
             (cx_result'.op = "update_string" /\ pl_plugin' = pl_plugin)
        /\ pl_plugin' # pl_plugin =>
             (pl_result'.op = "apply_translations" /\ cx_string_files' = cx_string_files)
        /\ (cx_result' # cx_result /\ cx_result'.op = "save_string_files") =>
             cx_result'.written = write_all(cx_string_files[1]) ]_vars

\* a translation was applied through the plugin and the tables were saved
\* through the context afterwards: the files written hold the old text
SavedOldTexts ==
    /\ cx_result.op = "save_string_files"
    /\ pl_result.op = "apply_translations"
    /\ pl_result.applied_count > 0
    /\ cx_result.written # write_all(pl_plugin.string_files[1])

(***************************************************************************)
(* SpecBatch: batches of updates handed to the string tables of a context  *)
(* through string_files_mut().                                             *)
(***************************************************************************)
\* the largest number of entries in a batch
MaxBatch == 2

\* the texts of a batch
BatchTexts == { <<88>>, <<89>> }

\* the table kinds a batch may name; no set of StringFileSets holds the last
BatchTypes == {"STRINGS", "DLSTRINGS", "ILSTRINGS"}

\* the HashMaps with keys from the given set: at most MaxBatch entries
BatchesOver(keys) ==
    UNION { [K -> BatchTexts] : K \in { S \in SUBSET keys : Cardinality(S) <= MaxBatch } }

\* StringFile::update_strings; `order` is the order in which the HashMap
\* yields its entries
RECURSIVE update_strings_loop(_, _, _, _)
update_strings_loop(file, updates, order, k) ==
    IF k > Len(order) THEN [ok |-> TRUE, file |-> file]
    ELSE LET r == update_string(file, order[k], updates[order[k]]) IN
         IF ~r.ok THEN [ok |-> FALSE, file |-> r.file]
         ELSE update_strings_loop(r.file, updates, order, k + 1)

update_strings(file, updates, order) == update_strings_loop(file, updates, order, 1)

\* StringFileSet::update_strings
set_update_strings(set, file_type, updates, order) ==
    IF file_type \in DOMAIN set.files
    THEN LET r == update_strings(set.files[file_type], updates, order) IN
         [ok |-> r.ok, set |-> [set EXCEPT !.files[file_type] = r.file]]
    ELSE [ok |-> FALSE, set |-> set]

\* StringFileSet::apply_translations; the keys are <<file_type, id>>
RECURSIVE set_apply_translations_loop(_, _, _, _)
set_apply_translations_loop(set, translations, order, k) ==
    IF k > Len(order) THEN [ok |-> TRUE, set |-> set]
    ELSE LET r == set_update_string(set, order[k][1], order[k][2],
                                    translations[order[k]]) IN
         IF ~r.ok THEN [ok |-> FALSE, set |-> r.set]
         ELSE set_apply_translations_loop(r.set, translations, order, k + 1)

set_apply_translations(set, translations, order) ==
    set_apply_translations_loop(set, translations, order, 1)

\* string_files_mut().update_strings(file_type, updates)
StringFilesMutUpdateStrings ==
    /\ \E file_type \in BatchTypes, updates \in BatchesOver(0..MaxStringId) :
        \E order \in IterationOrders(updates) :
         \E r \in {set_update_strings(cx_string_files[1], file_type, updates, order)} :
          /\ cx_string_files' = Some(r.set)
          /\ cx_result' = [op |-> "update_strings", ok |-> r.ok,
                           given |-> Cardinality(DOMAIN updates)]
    /\ UNCHANGED <<sfvars, recvars, plvars, rtvars, edvars, pgvars>>

\* string_files_mut().apply_translations(translations)
StringFilesMutApplyTranslations ==
    /\ \E translations \in BatchesOver(BatchTypes \X (0..MaxStringId)) :
        \E order \in IterationOrders(translations) :
         \E r \in {set_apply_translations(cx_string_files[1], translations, order)} :
          /\ cx_string_files' = Some(r.set)
          /\ cx_result' = [op |-> "apply_translations", ok |-> r.ok,
                           given |-> Cardinality(DOMAIN translations)]
    /\ UNCHANGED <<sfvars, recvars, plvars, rtvars, edvars, pgvars>>

BatchNext ==
    \/ StringFilesMutUpdateStrings
    \/ StringFilesMutApplyTranslations

SpecBatch == CxInit /\ [][BatchNext]_vars

\* a batch call has just returned an error
BatchFailed ==
    /\ cx_result' # cx_result \/ cx_string_files' # cx_string_files
    /\ cx_result'.op \in {"update_strings", "apply_translations"}
    /\ ~cx_result'.ok

\* C30: batch updates are all-or-nothing: when update_strings or
\* apply_translations returns an error, because an id of the batch is absent
\* or its table kind is not loaded, the call has changed no entry of any
\* table
C30_BatchAllOrNothing ==
    [][BatchFailed => cx_string_files' = cx_string_files]_vars

\* the entries of table t whose text differs between two sets
ChangedIn(before, after, t) ==
    { id \in DOMAIN before.files[t].entries :
         after.files[t].entries[id] # before.files[t].entries[id] }

\* what the code keeps: a batch adds and removes no entry and no table, and
\* a batch that returns an error has changed fewer entries than it names (none when it
\* names none): those the HashMap yielded before the one that failed
BatchUpdatesPrefix ==
    [][ \A before \in {cx_string_files[1]}, after \in {cx_string_files'[1]} :
          /\ DOMAIN after.files = DOMAIN before.files
          /\ \A t \in DOMAIN before.files :
                DOMAIN after.files[t].entries = DOMAIN before.files[t].entries
          /\ BatchFailed =>
                Cardinality(UNION { {t} \X ChangedIn(before, after, t) :
                                      t \in DOMAIN before.files })
                    <= (IF cx_result'.given = 0 THEN 0
                        ELSE cx_result'.given - 1) ]_vars

\* a batch of two entries failed after its first entry had been written
HalfApplied ==
    /\ cx_result.op = "update_strings"
    /\ ~cx_result.ok
    /\ cx_result.given = 2
    /\ \E id \in DOMAIN cx_string_files[1].files["STRINGS"].entries :
          cx_string_files[1].files["STRINGS"].entries[id].content \in BatchTexts

=============================================================================
